---- MODULE Spec2Model ----
(***************************************************************************)
(* The recursive-descent parser of the PCC prompt compiler (src/src/       *)
(* parser.c) as a state machine.  The C call stack is the variable `stack`;*)
(* one step runs the code of the function on top of the stack from the     *)
(* point where it was entered or resumed up to its next call of another    *)
(* parse_* function, its next loop head, or its return.                    *)
(***************************************************************************)
EXTENDS Integers, Sequences, FiniteSets, TLC

VARIABLES
    parser,   \* the Parser struct: lexer (its token array), current, errors
    stack,    \* the C call stack: one frame per active function, top last
    ret,      \* the value returned by the function that returned last
    ast,      \* what parser_parse returned to its caller (PENDING before)
    call,     \* the helper call made last by the helper harness
    main,     \* the run of main: where it is, stages started, exit status
    window,   \* the context window (context_window.c)
    sched     \* the threads: which parser runs, the one that waits

vars == <<parser, stack, ret, ast, call, main, window, sched>>

\* The null pointer, for tokens and for AST nodes.
NULL == [type |-> "NULL"]

\* parser_parse has not returned yet.
PENDING == [type |-> "PENDING"]

\* No helper call has been made.
NoCall == [op |-> "none"]

-----------------------------------------------------------------------------
(* Bounds of the model *)

\* No step is taken once more than this many errors are recorded.
MaxErrors == 6

\* The longest sequence of arbitrary tokens given to the parser.
MaxJunk == 2

\* The most elements in a generated prompt body of plain elements.
MaxElements == 2

\* The most statements in a generated program of several statements.
MaxStatements == 2

\* The most operands in a generated chain of `^`.
MaxChain == 3

\* The farthest lookahead asked of parser_peek.
MaxOffset == 1

\* The longest token sequence, and the most errors, of the helper harness.
MaxHelperLen == 2
MaxHelperErrors == 1

-----------------------------------------------------------------------------
(* Lexer interface (lexer.c is not part of the sources at hand) *)

\* Tokens are addressable by index; an index past the last token gives NULL.
lexer_get_token(lexer, index) ==
    IF index >= 0 /\ index < Len(lexer) THEN lexer[index + 1] ELSE NULL

-----------------------------------------------------------------------------
(* Parser helpers.  Each takes the Parser struct p and gives back the      *)
(* struct after the call (p) and the value returned (r).                   *)

\* A peek that reads the token array through a file-scope pointer, which
\* the parser created last has set.
parser_peek_static(p, offset) ==
    [p |-> p,
     r |-> lexer_get_token(IF sched.phase = "both" THEN sched.inputs[2]
                                                   ELSE p.lexer,
                           p.current + offset)]

\* A peek that moves the cursor to the token it looks at.
parser_peek_moving(p, offset) ==
    [p |-> [p EXCEPT !.current = @ + offset],
     r |-> lexer_get_token(p.lexer, p.current + offset)]

parser_peek(p, offset) ==
    [p |-> p, r |-> lexer_get_token(p.lexer, p.current + offset)]

parser_current(p) == parser_peek(p, 0)

\* An advance without the end-of-input test.
parser_advance_unguarded(p) ==
    LET token == lexer_get_token(p.lexer, p.current)
    IN  [p |-> IF token # NULL THEN [p EXCEPT !.current = @ + 1] ELSE p,
         r |-> token]

parser_advance(p) ==
    LET c == parser_current(p)
        token == c.r
    IN  [p |-> IF token # NULL /\ token.type # "TOKEN_EOF"
               THEN [c.p EXCEPT !.current = @ + 1]
               ELSE c.p,
         r |-> token]

parser_check(p, type) ==
    LET c == parser_current(p)
    IN  [p |-> c.p, r |-> (c.r # NULL /\ c.r.type = type)]

parser_match(p, type) ==
    LET c == parser_check(p, type)
    IN  IF c.r THEN [p |-> parser_advance(c.p).p, r |-> TRUE]
               ELSE [p |-> c.p, r |-> FALSE]

\* malloc, and pcc_array_create and pcc_strdup that allocate through it, as
\* seen by the parser p: r tells whether memory was given.  `heap` is the
\* state of the allocator and `alloc_failed` records that a request of this
\* parser has been refused; neither is a field of the C struct.
malloc(p) ==
    [p |-> IF p.heap = "failing" THEN [p EXCEPT !.alloc_failed = TRUE] ELSE p,
     r |-> p.heap # "failing"]

\* An error report that keeps the latest error alone.
parser_error_latest(p, message) ==
    LET token == lexer_get_token(p.lexer, p.current)
    IN  [p EXCEPT !.errors = <<[message |-> message,
                                position |-> token.position]>>]

\* void: gives back the Parser struct alone.
parser_error(p, message) ==
    LET c == parser_current(p)
        token == c.r
        error == [message |-> message,
                  position |-> IF token # NULL
                               THEN token.position
                               ELSE [line |-> 0, column |-> 0,
                                     filename |-> "<unknown>"]]
        m == malloc(c.p)
    IN  IF ~m.r THEN m.p
        ELSE [m.p EXCEPT !.errors = Append(@, error)]

\* A consume that skips the offending token after reporting it.
parser_consume_skipping(p, type, error_msg) ==
    LET token == lexer_get_token(p.lexer, p.current)
    IN  IF token # NULL /\ token.type = type
        THEN [p |-> IF token.type # "TOKEN_EOF"
                    THEN [p EXCEPT !.current = @ + 1] ELSE p,
              r |-> token]
        ELSE [p |-> [p EXCEPT !.errors =
                         Append(@, [message |-> error_msg,
                                    position |-> token.position]),
                                !.current = @ + 1],
              r |-> NULL]

parser_consume(p, type, error_msg) ==
    LET c == parser_check(p, type)
    IN  IF c.r THEN parser_advance(c.p)
               ELSE [p |-> parser_error(c.p, error_msg), r |-> NULL]

\* parser_match tried on each type of `types` in order, stopping at the
\* first that matches: parser_match(a) || parser_match(b) || ...
RECURSIVE match_any(_, _)
match_any(p, types) ==
    IF types = <<>> THEN [p |-> p, r |-> FALSE]
    ELSE LET m == parser_match(p, Head(types))
         IN  IF m.r THEN m ELSE match_any(m.p, Tail(types))

-----------------------------------------------------------------------------
(* AST constructors (ast.c is not part of the sources at hand): one per    *)
(* node kind, taking the semantic fields and a position, with no checks.   *)

ast_program_create(statements) ==
    [type |-> "AST_PROGRAM", statements |-> statements]

ast_prompt_def_create(name, body, pos) ==
    [type |-> "AST_PROMPT_DEF", name |-> name, body |-> body, position |-> pos]

ast_var_decl_create(name, initializer, pos) ==
    [type |-> "AST_VAR_DECL", name |-> name, initializer |-> initializer,
     position |-> pos]

ast_template_def_create(name, parameters, body, pos) ==
    [type |-> "AST_TEMPLATE_DEF", name |-> name, parameters |-> parameters,
     body |-> body, position |-> pos]

ast_constraint_def_create(name, constraints, pos) ==
    [type |-> "AST_CONSTRAINT_DEF", name |-> name, constraints |-> constraints,
     position |-> pos]

ast_constraint_expr_create(variable, op, value, pos) ==
    [type |-> "AST_CONSTRAINT_EXPR", variable |-> variable, op |-> op,
     value |-> value, position |-> pos]

ast_output_spec_create(name, format, pos) ==
    [type |-> "AST_OUTPUT_SPEC", name |-> name, format |-> format,
     position |-> pos]

ast_list_create(type, elements, pos) ==
    [type |-> type, elements |-> elements, position |-> pos]

ast_text_element_create(text, is_raw, pos) ==
    [type |-> "AST_TEXT_ELEMENT", text |-> text, is_raw |-> is_raw,
     position |-> pos]

ast_variable_ref_create(name, pos) ==
    [type |-> "AST_VARIABLE_REF", name |-> name, position |-> pos]

ast_function_call_create(name, arguments, pos) ==
    [type |-> "AST_FUNCTION_CALL", name |-> name, arguments |-> arguments,
     position |-> pos]

ast_if_stmt_create(condition, then_body, else_body, pos) ==
    [type |-> "AST_IF_STMT", condition |-> condition, then_body |-> then_body,
     else_body |-> else_body, position |-> pos]

ast_for_stmt_create(variable, iterable, body, pos) ==
    [type |-> "AST_FOR_STMT", variable |-> variable, iterable |-> iterable,
     body |-> body, position |-> pos]

ast_while_stmt_create(condition, body, pos) ==
    [type |-> "AST_WHILE_STMT", condition |-> condition, body |-> body,
     position |-> pos]

ast_binary_expr_create(op, left, right, pos) ==
    [type |-> "AST_BINARY_EXPR", op |-> op, left |-> left, right |-> right,
     position |-> pos]

ast_unary_expr_create(op, operand, pos) ==
    [type |-> "AST_UNARY_EXPR", op |-> op, operand |-> operand,
     position |-> pos]

ast_identifier_create(name, pos) ==
    [type |-> "AST_IDENTIFIER", name |-> name, position |-> pos]

ast_string_literal_create(value, pos) ==
    [type |-> "AST_STRING_LITERAL", value |-> value, position |-> pos]

ast_number_literal_create(value, pos) ==
    [type |-> "AST_NUMBER_LITERAL", value |-> value, position |-> pos]

ast_boolean_literal_create(value, pos) ==
    [type |-> "AST_BOOLEAN_LITERAL", value |-> value, position |-> pos]

-----------------------------------------------------------------------------
(* The call stack *)

Top == stack[Len(stack)]

\* The function on top of the stack is fn, about to run from label pc.
At(fn, pc) ==
    /\ stack # <<>>
    /\ Top.fn = fn
    /\ Top.pc = pc
    /\ Len(parser.errors) <= MaxErrors

SetTop(frame) == [stack EXCEPT ![Len(stack)] = frame]

\* The running function goes on at another label of its own.
Goto(p, frame) ==
    /\ parser' = p
    /\ stack' = SetTop(frame)
    /\ UNCHANGED <<ret, ast, call, main, window, sched>>

\* The running function calls fn and will resume as `frame`.
Call(p, frame, callee) ==
    /\ parser' = p
    /\ stack' = Append(SetTop(frame), callee)
    /\ UNCHANGED <<ret, ast, call, main, window, sched>>

\* The running function returns value.
Return(p, value) ==
    /\ parser' = p
    /\ stack' = SubSeq(stack, 1, Len(stack) - 1)
    /\ ret' = value
    /\ UNCHANGED <<ast, call, main, window, sched>>

\* The frame of a function that was just called.
Entry(fn) == [fn |-> fn, pc |-> "entry"]

\* A loop frame keeps in iter_start the cursor at which its current
\* iteration began (<<>> before the first): a history field, read by no code.
BeginIter(frame, p) == [frame EXCEPT !.iter_start = <<p.current>>]

-----------------------------------------------------------------------------
(* Public entry point *)

parser_parse ==
    \/ /\ stack = <<>>
       /\ ast = PENDING
       /\ Len(parser.errors) <= MaxErrors
       /\ stack' = <<[fn |-> "parser_parse", pc |-> "program"],
                     Entry("parse_program")>>
       /\ UNCHANGED <<parser, ret, ast, call, main, window, sched>>
    \/ /\ At("parser_parse", "program")
       /\ ast' = ret
       /\ stack' = <<>>
       /\ UNCHANGED <<parser, ret, call, main, window, sched>>

-----------------------------------------------------------------------------
(* Statements *)

StatementStart ==
    <<"TOKEN_EOF", "TOKEN_PROMPT", "TOKEN_VAR", "TOKEN_TEMPLATE",
      "TOKEN_CONSTRAINT", "TOKEN_OUTPUT">>

\* Is the current token of one of `types`?  (!check(a) && !check(b) ...)
RECURSIVE check_any(_, _)
check_any(p, types) ==
    IF types = <<>> THEN [p |-> p, r |-> FALSE]
    ELSE LET c == parser_check(p, Head(types))
         IN  IF c.r THEN c ELSE check_any(c.p, Tail(types))

\* A recovery that discards nothing.
skip_to_statement_idle(p) == p

\* A recovery loop that discards the token it stands on before it looks.
RECURSIVE skip_past_statement(_)
skip_past_statement(p) ==
    LET a == parser_advance(p)
        c == check_any(a.p, StatementStart)
    IN  IF c.r THEN c.p
        ELSE skip_past_statement(c.p)

\* The skip loop of parse_program: advance up to end of input or to a
\* token that starts a statement.
RECURSIVE skip_to_statement(_)
skip_to_statement(p) ==
    LET c == check_any(p, StatementStart)
    IN  IF c.r THEN c.p
        ELSE skip_to_statement(parser_advance(c.p).p)

\* A statement loop that runs while there is a current token at all.
parse_program_to_null ==
    \/ /\ At("parse_program", "entry")
       /\ Goto(parser, [fn |-> "parse_program", pc |-> "loop",
                        statements |-> <<>>, iter_start |-> <<>>])
    \/ /\ At("parse_program", "loop")
       /\ LET c == parser_current(parser)
          IN  IF c.r # NULL
              THEN Call(c.p, BeginIter([Top EXCEPT !.pc = "stmt"], c.p),
                        Entry("parse_statement"))
              ELSE Return(c.p, ast_program_create(Top.statements))
    \/ /\ At("parse_program", "stmt")
       /\ IF ret # NULL
          THEN Goto(parser, [Top EXCEPT !.pc = "loop",
                                        !.statements = Append(@, ret)])
          ELSE Goto(skip_to_statement(parser), [Top EXCEPT !.pc = "loop"])

parse_program ==
    \/ /\ At("parse_program", "entry")
       /\ LET m == malloc(parser)
          IN  IF ~m.r THEN Return(m.p, NULL)
              ELSE Goto(m.p, [fn |-> "parse_program", pc |-> "loop",
                              statements |-> <<>>, iter_start |-> <<>>])
    \/ /\ At("parse_program", "loop")
       /\ LET c == parser_check(parser, "TOKEN_EOF")
          IN  IF ~c.r
              THEN Call(c.p, BeginIter([Top EXCEPT !.pc = "stmt"], c.p),
                        Entry("parse_statement"))
              ELSE Return(c.p, ast_program_create(Top.statements))
    \/ /\ At("parse_program", "stmt")
       /\ IF ret # NULL
          THEN Goto(parser, [Top EXCEPT !.pc = "loop",
                                        !.statements = Append(@, ret)])
          ELSE Goto(skip_to_statement(parser), [Top EXCEPT !.pc = "loop"])

parse_statement ==
    \/ /\ At("parse_statement", "entry")
       /\ LET c == parser_current(parser)
              token == c.r
              frame == [fn |-> "parse_statement", pc |-> "ret", token |-> token]
          IN  IF token = NULL THEN Return(c.p, NULL)
              ELSE CASE token.type = "TOKEN_PROMPT" ->
                          Call(c.p, frame, Entry("parse_prompt_def"))
                     [] token.type = "TOKEN_VAR" ->
                          Call(c.p, frame, Entry("parse_var_decl"))
                     [] token.type = "TOKEN_TEMPLATE" ->
                          Call(c.p, frame, Entry("parse_template_def"))
                     [] token.type = "TOKEN_CONSTRAINT" ->
                          Call(c.p, frame, Entry("parse_constraint_def"))
                     [] token.type = "TOKEN_OUTPUT" ->
                          Call(c.p, frame, Entry("parse_output_spec"))
                     [] OTHER ->
                          Return(parser_error(c.p, "Expected statement"), NULL)
    \/ /\ At("parse_statement", "ret")
       /\ Return(parser, ret)

parse_prompt_def ==
    \/ /\ At("parse_prompt_def", "entry")
       /\ LET c1 == parser_consume(parser, "TOKEN_PROMPT",
                                   "Expected PROMPT keyword")
              c2 == parser_consume(c1.p, "TOKEN_IDENTIFIER",
                                   "Expected prompt name")
              c3 == parser_consume(c2.p, "TOKEN_LBRACE",
                                   "Expected '{' after prompt name")
          IN  IF c1.r = NULL THEN Return(c1.p, NULL)
              ELSE IF c2.r = NULL THEN Return(c2.p, NULL)
              ELSE Call(c3.p, [fn |-> "parse_prompt_def", pc |-> "body",
                               prompt_token |-> c1.r, name_token |-> c2.r],
                        Entry("parse_element_list"))
    \/ /\ At("parse_prompt_def", "body")
       /\ LET body == ret
              c == parser_consume(parser, "TOKEN_RBRACE",
                                  "Expected '}' after prompt body")
          IN  Return(c.p, ast_prompt_def_create(Top.name_token.lexeme, body,
                                                Top.prompt_token.position))

parse_var_decl ==
    \/ /\ At("parse_var_decl", "entry")
       /\ LET c1 == parser_consume(parser, "TOKEN_VAR", "Expected VAR keyword")
              c2 == parser_consume(c1.p, "TOKEN_IDENTIFIER",
                                   "Expected variable name")
              c3 == parser_consume(c2.p, "TOKEN_ASSIGN",
                                   "Expected '=' after variable name")
          IN  IF c1.r = NULL THEN Return(c1.p, NULL)
              ELSE IF c2.r = NULL THEN Return(c2.p, NULL)
              ELSE Call(c3.p, [fn |-> "parse_var_decl", pc |-> "initializer",
                               var_token |-> c1.r, name_token |-> c2.r],
                        Entry("parse_expression"))
    \/ /\ At("parse_var_decl", "initializer")
       /\ LET initializer == ret
          IN  IF initializer = NULL
              THEN Return(parser_error(parser, "Expected expression after '='"),
                          NULL)
              ELSE LET c == parser_consume(parser, "TOKEN_SEMICOLON",
                                "Expected ';' after variable declaration")
                   IN  Return(c.p, ast_var_decl_create(Top.name_token.lexeme,
                                       initializer, Top.var_token.position))

\* The parameter loop of parse_template_def:
\* do { consume(IDENTIFIER) ... } while (match(COMMA)).
RECURSIVE parse_parameters(_, _)
parse_parameters(p, parameters) ==
    LET c == parser_consume(p, "TOKEN_IDENTIFIER", "Expected parameter name")
        pushed == IF c.r # NULL THEN Append(parameters, c.r.lexeme)
                                ELSE parameters
        m == parser_match(c.p, "TOKEN_COMMA")
    IN  IF m.r THEN parse_parameters(m.p, pushed)
               ELSE [p |-> m.p, r |-> pushed]

parse_template_def ==
    \/ /\ At("parse_template_def", "entry")
       /\ LET c1 == parser_consume(parser, "TOKEN_TEMPLATE",
                                   "Expected TEMPLATE keyword")
              c2 == parser_consume(c1.p, "TOKEN_IDENTIFIER",
                                   "Expected template name")
              c3 == parser_consume(c2.p, "TOKEN_LPAREN",
                                   "Expected '(' after template name")
              m  == malloc(c3.p)
              k  == parser_check(m.p, "TOKEN_RPAREN")
              ps == IF ~k.r THEN parse_parameters(k.p, <<>>)
                            ELSE [p |-> k.p, r |-> <<>>]
              c4 == parser_consume(ps.p, "TOKEN_RPAREN",
                                   "Expected ')' after parameters")
              c5 == parser_consume(c4.p, "TOKEN_LBRACE",
                                   "Expected '{' after template parameters")
          IN  IF c1.r = NULL THEN Return(c1.p, NULL)
              ELSE IF c2.r = NULL THEN Return(c2.p, NULL)
              ELSE IF ~m.r THEN Return(m.p, NULL)
              ELSE Call(c5.p, [fn |-> "parse_template_def", pc |-> "body",
                               template_token |-> c1.r, name_token |-> c2.r,
                               parameters |-> ps.r],
                        Entry("parse_element_list"))
    \/ /\ At("parse_template_def", "body")
       /\ LET body == ret
              c == parser_consume(parser, "TOKEN_RBRACE",
                                  "Expected '}' after template body")
          IN  Return(c.p, ast_template_def_create(Top.name_token.lexeme,
                              Top.parameters, body,
                              Top.template_token.position))

parse_constraint_def ==
    \/ /\ At("parse_constraint_def", "entry")
       /\ LET c1 == parser_consume(parser, "TOKEN_CONSTRAINT",
                                   "Expected CONSTRAINT keyword")
              c2 == parser_consume(c1.p, "TOKEN_IDENTIFIER",
                                   "Expected constraint name")
              c3 == parser_consume(c2.p, "TOKEN_LBRACE",
                                   "Expected '{' after constraint name")
              m  == malloc(c3.p)
          IN  IF c1.r = NULL THEN Return(c1.p, NULL)
              ELSE IF c2.r = NULL THEN Return(c2.p, NULL)
              ELSE IF ~m.r THEN Return(m.p, NULL)
              ELSE Goto(m.p, [fn |-> "parse_constraint_def", pc |-> "loop",
                              constraint_token |-> c1.r, name_token |-> c2.r,
                              constraints |-> <<>>, iter_start |-> <<>>])
    \/ /\ At("parse_constraint_def", "loop")
       /\ LET k == check_any(parser, <<"TOKEN_RBRACE", "TOKEN_EOF">>)
          IN  IF ~k.r
              THEN Call(k.p, BeginIter([Top EXCEPT !.pc = "constraint"], k.p),
                        Entry("parse_constraint_expr"))
              ELSE LET c == parser_consume(k.p, "TOKEN_RBRACE",
                                "Expected '}' after constraint body")
                   IN  Return(c.p, ast_constraint_def_create(
                                       Top.name_token.lexeme, Top.constraints,
                                       Top.constraint_token.position))
    \/ /\ At("parse_constraint_def", "constraint")
       /\ LET constraint == ret
              c == parser_consume(parser, "TOKEN_SEMICOLON",
                                  "Expected ';' after constraint")
          IN  Goto(c.p, [Top EXCEPT !.pc = "loop",
                                    !.constraints =
                                        IF constraint # NULL
                                        THEN Append(@, constraint) ELSE @])

\* The switch of parse_constraint_expr on the operator token's type: the
\* op_type it selects, or <<>> for the default branch.
constraint_op_type(type) ==
    CASE type = "TOKEN_EQ" -> <<"TOKEN_EQ">>
      [] type = "TOKEN_NE" -> <<"TOKEN_NE">>
      [] type = "TOKEN_LT" -> <<"TOKEN_LT">>
      [] type = "TOKEN_GT" -> <<"TOKEN_GT">>
      [] type = "TOKEN_LE" -> <<"TOKEN_LE">>
      [] type = "TOKEN_GE" -> <<"TOKEN_GE">>
      [] type = "TOKEN_IN" -> <<"TOKEN_IN_OP">>
      [] OTHER -> <<>>

parse_constraint_expr ==
    \/ /\ At("parse_constraint_expr", "entry")
       /\ LET c1 == parser_consume(parser, "TOKEN_IDENTIFIER",
                                   "Expected variable name")
              c2 == parser_current(c1.p)
              op_token == c2.r
              op_type == constraint_op_type(op_token.type)
          IN  IF c1.r = NULL THEN Return(c1.p, NULL)
              ELSE IF op_type = <<>>
              THEN Return(parser_error(c2.p, "Expected comparison operator"),
                          NULL)
              ELSE Call(parser_advance(c2.p).p,
                        [fn |-> "parse_constraint_expr", pc |-> "value",
                         var_token |-> c1.r, op_type |-> op_type[1]],
                        Entry("parse_expression"))
    \/ /\ At("parse_constraint_expr", "value")
       /\ LET value == ret
          IN  IF value = NULL
              THEN Return(parser_error(parser, "Expected value after operator"),
                          NULL)
              ELSE Return(parser, ast_constraint_expr_create(
                                      Top.var_token.lexeme, Top.op_type, value,
                                      Top.var_token.position))

\* The strcmp chain of parse_output_spec.
output_format(lexeme) ==
    IF lexeme = <<"J", "S", "O", "N">> THEN 1
    ELSE IF lexeme = <<"T", "E", "X", "T">> THEN 2
    ELSE IF lexeme = <<"M", "A", "R", "K", "D", "O", "W", "N">> THEN 3
    ELSE 0

parse_output_spec ==
    /\ At("parse_output_spec", "entry")
    /\ LET c1 == parser_consume(parser, "TOKEN_OUTPUT",
                                "Expected OUTPUT keyword")
           c2 == parser_consume(c1.p, "TOKEN_IDENTIFIER",
                                "Expected output name")
           c3 == parser_consume(c2.p, "TOKEN_AS", "Expected AS keyword")
           c4 == parser_current(c3.p)
           format_token == c4.r
           m  == parser_match(c4.p, "TOKEN_IDENTIFIER")
           format == IF m.r THEN output_format(format_token.lexeme) ELSE 0
           p5 == IF m.r /\ format = 0
                 THEN parser_error(m.p,
                          "Expected format (JSON, TEXT, or MARKDOWN)")
                 ELSE m.p
           c6 == parser_consume(p5, "TOKEN_SEMICOLON",
                                "Expected ';' after output specification")
       IN  IF c1.r = NULL THEN Return(c1.p, NULL)
           ELSE IF c2.r = NULL THEN Return(c2.p, NULL)
           ELSE Return(c6.p, ast_output_spec_create(c2.r.lexeme, format,
                                                    c1.r.position))

-----------------------------------------------------------------------------
(* Elements *)

parse_element_list ==
    \/ /\ At("parse_element_list", "entry")
       /\ LET m == malloc(parser)
          IN  IF ~m.r THEN Return(m.p, NULL)
              ELSE Goto(m.p, [fn |-> "parse_element_list", pc |-> "loop",
                              elements |-> <<>>, iter_start |-> <<>>])
    \/ /\ At("parse_element_list", "loop")
       /\ LET k == check_any(parser,
                             <<"TOKEN_RBRACE", "TOKEN_RPAREN", "TOKEN_EOF">>)
              pos == [line |-> 0, column |-> 0, filename |-> "<element_list>"]
          IN  IF ~k.r
              THEN Call(k.p, BeginIter([Top EXCEPT !.pc = "element"], k.p),
                        Entry("parse_element"))
              ELSE Return(k.p, ast_list_create("AST_ELEMENT_LIST",
                                               Top.elements, pos))
    \/ /\ At("parse_element_list", "element")
       /\ LET element == ret
          IN  Goto(parser, [Top EXCEPT !.pc = "loop",
                                       !.elements = IF element # NULL
                                                    THEN Append(@, element)
                                                    ELSE @])

parse_element ==
    \/ /\ At("parse_element", "entry")
       /\ LET c == parser_current(parser)
              token == c.r
              frame == [fn |-> "parse_element", pc |-> "ret", token |-> token]
          IN  IF token = NULL THEN Return(c.p, NULL)
              ELSE CASE token.type = "TOKEN_STRING" ->
                          Call(c.p, frame, [fn |-> "parse_text_element",
                                            pc |-> "entry", is_raw |-> 0])
                     [] token.type = "TOKEN_RAW" ->
                          Call(c.p, frame, [fn |-> "parse_text_element",
                                            pc |-> "entry", is_raw |-> 1])
                     [] token.type = "TOKEN_VARIABLE_REF" ->
                          Call(c.p, frame, Entry("parse_variable_element"))
                     [] token.type = "TOKEN_TEMPLATE_CALL" ->
                          Call(c.p, frame, Entry("parse_template_element"))
                     [] token.type = "TOKEN_IF" ->
                          Call(c.p, frame, Entry("parse_if_stmt"))
                     [] token.type = "TOKEN_FOR" ->
                          Call(c.p, frame, Entry("parse_for_stmt"))
                     [] token.type = "TOKEN_WHILE" ->
                          Call(c.p, frame, Entry("parse_while_stmt"))
                     [] OTHER ->
                          Call(c.p, frame, Entry("parse_expression"))
    \/ /\ At("parse_element", "ret")
       /\ Return(parser, ret)

parse_text_element ==
    /\ At("parse_text_element", "entry")
    /\ LET c0 == parser_current(parser)
           pos == c0.r.position
           c1 == parser_consume(c0.p, "TOKEN_STRING", "Expected string literal")
           string_token == c1.r
       IN  IF string_token = NULL THEN Return(c1.p, NULL)
           ELSE Return(c1.p, ast_text_element_create(
                                 string_token.value.string_val, Top.is_raw, pos))

\* lexeme + 1: the lexeme without its first character (the sigil).
skip_sigil(lexeme) == Tail(lexeme)

parse_variable_element ==
    /\ At("parse_variable_element", "entry")
    /\ LET c == parser_consume(parser, "TOKEN_VARIABLE_REF",
                               "Expected variable reference")
           token == c.r
           m == malloc(c.p)
       IN  IF token = NULL THEN Return(c.p, NULL)
           ELSE IF ~m.r THEN Return(m.p, NULL)
           ELSE Return(m.p, ast_variable_ref_create(skip_sigil(token.lexeme),
                                                    token.position))

\* The end of parse_template_element, after its argument loop.
template_element_end(p, frame) ==
    LET c == parser_consume(p, "TOKEN_RPAREN",
                            "Expected ')' after template arguments")
        m == malloc(c.p)
    IN  IF ~m.r THEN Return(m.p, NULL)
        ELSE Return(m.p, ast_function_call_create(
                            skip_sigil(frame.token.lexeme), frame.arguments,
                            frame.token.position))

parse_template_element ==
    \/ /\ At("parse_template_element", "entry")
       /\ LET c1 == parser_consume(parser, "TOKEN_TEMPLATE_CALL",
                                   "Expected template call")
              c2 == parser_consume(c1.p, "TOKEN_LPAREN",
                                   "Expected '(' after template name")
              m  == malloc(c2.p)
              k  == parser_check(m.p, "TOKEN_RPAREN")
              frame == [fn |-> "parse_template_element", pc |-> "arg",
                        token |-> c1.r, arguments |-> <<>>]
          IN  IF c1.r = NULL THEN Return(c1.p, NULL)
              ELSE IF ~m.r THEN Return(m.p, NULL)
              ELSE IF ~k.r THEN Call(k.p, frame, Entry("parse_expression"))
              ELSE template_element_end(k.p, frame)
    \/ /\ At("parse_template_element", "arg")
       /\ LET arg == ret
              frame == [Top EXCEPT !.arguments = IF arg # NULL
                                                 THEN Append(@, arg) ELSE @]
              m == parser_match(parser, "TOKEN_COMMA")
          IN  IF m.r THEN Call(m.p, frame, Entry("parse_expression"))
              ELSE template_element_end(m.p, frame)

parse_if_stmt ==
    \/ /\ At("parse_if_stmt", "entry")
       /\ LET c == parser_consume(parser, "TOKEN_IF", "Expected IF keyword")
          IN  IF c.r = NULL THEN Return(c.p, NULL)
              ELSE Call(c.p, [fn |-> "parse_if_stmt", pc |-> "condition",
                              if_token |-> c.r],
                        Entry("parse_expression"))
    \/ /\ At("parse_if_stmt", "condition")
       /\ LET condition == ret
              c == parser_consume(parser, "TOKEN_LBRACE",
                                  "Expected '{' after IF condition")
          IN  IF condition = NULL
              THEN Return(parser_error(parser, "Expected condition after IF"),
                          NULL)
              ELSE Call(c.p, [fn |-> "parse_if_stmt", pc |-> "then",
                              if_token |-> Top.if_token,
                              condition |-> condition],
                        Entry("parse_element_list"))
    \/ /\ At("parse_if_stmt", "then")
       /\ LET then_body == ret
              c1 == parser_consume(parser, "TOKEN_RBRACE",
                                   "Expected '}' after IF body")
              m  == parser_match(c1.p, "TOKEN_ELSE")
              c2 == parser_consume(m.p, "TOKEN_LBRACE",
                                   "Expected '{' after ELSE")
          IN  IF m.r
              THEN Call(c2.p, [fn |-> "parse_if_stmt", pc |-> "else",
                               if_token |-> Top.if_token,
                               condition |-> Top.condition,
                               then_body |-> then_body],
                        Entry("parse_element_list"))
              ELSE Return(m.p, ast_if_stmt_create(Top.condition, then_body,
                                                  NULL, Top.if_token.position))
    \/ /\ At("parse_if_stmt", "else")
       /\ LET else_body == ret
              c == parser_consume(parser, "TOKEN_RBRACE",
                                  "Expected '}' after ELSE body")
          IN  Return(c.p, ast_if_stmt_create(Top.condition, Top.then_body,
                                             else_body, Top.if_token.position))

parse_for_stmt ==
    \/ /\ At("parse_for_stmt", "entry")
       /\ LET c1 == parser_consume(parser, "TOKEN_FOR", "Expected FOR keyword")
              c2 == parser_consume(c1.p, "TOKEN_IDENTIFIER",
                                   "Expected loop variable")
              c3 == parser_consume(c2.p, "TOKEN_IN", "Expected IN keyword")
          IN  IF c1.r = NULL THEN Return(c1.p, NULL)
              ELSE IF c2.r = NULL THEN Return(c2.p, NULL)
              ELSE Call(c3.p, [fn |-> "parse_for_stmt", pc |-> "iterable",
                               for_token |-> c1.r, var_token |-> c2.r],
                        Entry("parse_expression"))
    \/ /\ At("parse_for_stmt", "iterable")
       /\ LET iterable == ret
              c == parser_consume(parser, "TOKEN_LBRACE",
                                  "Expected '{' after FOR iterable")
          IN  IF iterable = NULL
              THEN Return(parser_error(parser, "Expected iterable after IN"),
                          NULL)
              ELSE Call(c.p, [fn |-> "parse_for_stmt", pc |-> "body",
                              for_token |-> Top.for_token,
                              var_token |-> Top.var_token,
                              iterable |-> iterable],
                        Entry("parse_element_list"))
    \/ /\ At("parse_for_stmt", "body")
       /\ LET body == ret
              c == parser_consume(parser, "TOKEN_RBRACE",
                                  "Expected '}' after FOR body")
          IN  Return(c.p, ast_for_stmt_create(Top.var_token.lexeme,
                              Top.iterable, body, Top.for_token.position))

parse_while_stmt ==
    \/ /\ At("parse_while_stmt", "entry")
       /\ LET c == parser_consume(parser, "TOKEN_WHILE",
                                  "Expected WHILE keyword")
          IN  IF c.r = NULL THEN Return(c.p, NULL)
              ELSE Call(c.p, [fn |-> "parse_while_stmt", pc |-> "condition",
                              while_token |-> c.r],
                        Entry("parse_expression"))
    \/ /\ At("parse_while_stmt", "condition")
       /\ LET condition == ret
              c == parser_consume(parser, "TOKEN_LBRACE",
                                  "Expected '{' after WHILE condition")
          IN  IF condition = NULL
              THEN Return(parser_error(parser,
                                       "Expected condition after WHILE"), NULL)
              ELSE Call(c.p, [fn |-> "parse_while_stmt", pc |-> "body",
                              while_token |-> Top.while_token,
                              condition |-> condition],
                        Entry("parse_element_list"))
    \/ /\ At("parse_while_stmt", "body")
       /\ LET body == ret
              c == parser_consume(parser, "TOKEN_RBRACE",
                                  "Expected '}' after WHILE body")
          IN  Return(c.p, ast_while_stmt_create(Top.condition, body,
                                                Top.while_token.position))

-----------------------------------------------------------------------------
(* Expressions *)

parse_expression ==
    \/ /\ At("parse_expression", "entry")
       /\ Call(parser, [fn |-> "parse_expression", pc |-> "ret"],
               Entry("parse_logical_or"))
    \/ /\ At("parse_expression", "ret")
       /\ Return(parser, ret)

\* The loop test shared by the six left-associative levels:
\*   while (parser_match(op1) || parser_match(op2) ...) {
\*       Token* op_token = parser_current(parser);
\*       ASTNode* right = <operand>(parser);
\* A level whose loop has matched calls its operand parser; one whose loop
\* has not returns left.
binary_while(fn, operand, ops, left) ==
    LET m == match_any(parser, ops)
        c == parser_current(m.p)
        op_token == c.r
    IN  IF m.r
        THEN Call(c.p, [fn |-> fn, pc |-> "right", left |-> left,
                        op_token |-> op_token],
                  Entry(operand))
        ELSE Return(m.p, left)

\* One left-associative level: fn parses its operands with `operand`, joins
\* them on the operators `ops`, and builds its node with the operator
\* `fixed_op[1]` when the code names the operator itself (TOKEN_OR,
\* TOKEN_AND) and with op_token->type when fixed_op is <<>>.
binary_level(fn, operand, ops, fixed_op) ==
    \/ /\ At(fn, "entry")
       /\ Call(parser, [fn |-> fn, pc |-> "left"], Entry(operand))
    \/ /\ At(fn, "left")
       /\ binary_while(fn, operand, ops, ret)
    \/ /\ At(fn, "right")
       /\ LET right == ret
              op == IF fixed_op # <<>> THEN fixed_op[1] ELSE Top.op_token.type
          IN  binary_while(fn, operand, ops,
                           ast_binary_expr_create(op, Top.left, right,
                                                  Top.op_token.position))

parse_logical_or ==
    binary_level("parse_logical_or", "parse_logical_and",
                 <<"TOKEN_OR">>, <<"TOKEN_OR">>)

parse_logical_and ==
    binary_level("parse_logical_and", "parse_equality",
                 <<"TOKEN_AND">>, <<"TOKEN_AND">>)

parse_equality ==
    binary_level("parse_equality", "parse_comparison",
                 <<"TOKEN_EQ", "TOKEN_NE">>, <<>>)

parse_comparison ==
    binary_level("parse_comparison", "parse_term",
                 <<"TOKEN_LT", "TOKEN_GT", "TOKEN_LE", "TOKEN_GE">>, <<>>)

parse_term ==
    binary_level("parse_term", "parse_factor",
                 <<"TOKEN_ADD", "TOKEN_SUB">>, <<>>)

parse_factor ==
    binary_level("parse_factor", "parse_power",
                 <<"TOKEN_MUL", "TOKEN_DIV", "TOKEN_MOD">>, <<>>)

\* A power level that loops like the levels below it (left-associative).
parse_power_looping ==
    binary_level("parse_power", "parse_unary", <<"TOKEN_POW">>, <<"TOKEN_POW">>)

parse_power ==
    \/ /\ At("parse_power", "entry")
       /\ Call(parser, [fn |-> "parse_power", pc |-> "left"],
               Entry("parse_unary"))
    \/ /\ At("parse_power", "left")
       /\ LET left == ret
              m == parser_match(parser, "TOKEN_POW")
              c == parser_current(m.p)
              op_token == c.r
          IN  IF m.r
              THEN Call(c.p, [fn |-> "parse_power", pc |-> "right",
                              left |-> left, op_token |-> op_token],
                        Entry("parse_power"))
              ELSE Return(m.p, left)
    \/ /\ At("parse_power", "right")
       /\ LET right == ret
          IN  Return(parser, ast_binary_expr_create("TOKEN_POW", Top.left,
                                 right, Top.op_token.position))

\* A unary level that binds looser than Power: its operand is a power.
parse_unary_loose ==
    \/ /\ At("parse_unary", "entry")
       /\ LET m == match_any(parser, <<"TOKEN_NOT", "TOKEN_SUB">>)
              c == parser_current(m.p)
              op_token == c.r
          IN  IF m.r
              THEN Call(c.p, [fn |-> "parse_unary", pc |-> "operand",
                              op_token |-> op_token],
                        Entry("parse_power"))
              ELSE Call(m.p, [fn |-> "parse_unary", pc |-> "ret"],
                        Entry("parse_primary"))
    \/ /\ At("parse_unary", "operand")
       /\ LET operand == ret
          IN  Return(parser, ast_unary_expr_create(Top.op_token.type, operand,
                                                   Top.op_token.position))
    \/ /\ At("parse_unary", "ret")
       /\ Return(parser, ret)

parse_unary ==
    \/ /\ At("parse_unary", "entry")
       /\ LET m == match_any(parser, <<"TOKEN_NOT", "TOKEN_SUB">>)
              c == parser_current(m.p)
              op_token == c.r
          IN  IF m.r
              THEN Call(c.p, [fn |-> "parse_unary", pc |-> "operand",
                              op_token |-> op_token],
                        Entry("parse_unary"))
              ELSE Call(m.p, [fn |-> "parse_unary", pc |-> "ret"],
                        Entry("parse_primary"))
    \/ /\ At("parse_unary", "operand")
       /\ LET operand == ret
          IN  Return(parser, ast_unary_expr_create(Top.op_token.type, operand,
                                                   Top.op_token.position))
    \/ /\ At("parse_unary", "ret")
       /\ Return(parser, ret)

parse_primary ==
    \/ /\ At("parse_primary", "entry")
       /\ LET c == parser_current(parser)
              token == c.r
              a == parser_advance(c.p)
          IN  IF token = NULL THEN Return(c.p, NULL)
              ELSE CASE token.type = "TOKEN_IDENTIFIER" ->
                          Return(a.p, ast_identifier_create(a.r.lexeme,
                                                            a.r.position))
                     [] token.type = "TOKEN_STRING" ->
                          Return(a.p, ast_string_literal_create(
                                          a.r.value.string_val, a.r.position))
                     [] token.type = "TOKEN_NUMBER" ->
                          Return(a.p, ast_number_literal_create(
                                          a.r.value.number_val, a.r.position))
                     [] token.type = "TOKEN_TRUE" ->
                          Return(a.p, ast_boolean_literal_create(1,
                                                                 a.r.position))
                     [] token.type = "TOKEN_FALSE" ->
                          Return(a.p, ast_boolean_literal_create(0,
                                                                 a.r.position))
                     [] token.type = "TOKEN_LPAREN" ->
                          Call(a.p, [fn |-> "parse_primary", pc |-> "paren"],
                               Entry("parse_expression"))
                     [] OTHER ->
                          Return(parser_error(c.p, "Expected expression"), NULL)
    \/ /\ At("parse_primary", "paren")
       /\ LET expr == ret
              c == parser_consume(parser, "TOKEN_RPAREN",
                                  "Expected ')' after expression")
          IN  Return(c.p, expr)

-----------------------------------------------------------------------------
(* The parse as a whole *)

Next ==
    \/ parser_parse
    \/ parse_program
    \/ parse_statement
    \/ parse_prompt_def
    \/ parse_var_decl
    \/ parse_template_def
    \/ parse_constraint_def
    \/ parse_constraint_expr
    \/ parse_output_spec
    \/ parse_element_list
    \/ parse_element
    \/ parse_text_element
    \/ parse_variable_element
    \/ parse_template_element
    \/ parse_if_stmt
    \/ parse_for_stmt
    \/ parse_while_stmt
    \/ parse_expression
    \/ parse_logical_or
    \/ parse_logical_and
    \/ parse_equality
    \/ parse_comparison
    \/ parse_term
    \/ parse_factor
    \/ parse_power
    \/ parse_unary
    \/ parse_primary

-----------------------------------------------------------------------------
(* Token sequences.  A symbol is a token without its position; Lexer gives  *)
(* the token array the lexer hands to the parser: the symbols in order,     *)
(* each at its position, closed by one end-of-input token.                  *)

NoValue == [string_val |-> <<>>, number_val |-> 0]

Kw(type, lexeme) == [type |-> type, lexeme |-> lexeme, value |-> NoValue]

PROMPT     == Kw("TOKEN_PROMPT", <<"p", "r", "o", "m", "p", "t">>)
VAR        == Kw("TOKEN_VAR", <<"v", "a", "r">>)
TEMPLATE   == Kw("TOKEN_TEMPLATE", <<"t", "e", "m", "p", "l", "a", "t", "e">>)
CONSTRAINT == Kw("TOKEN_CONSTRAINT",
                 <<"c", "o", "n", "s", "t", "r", "a", "i", "n", "t">>)
OUTPUT     == Kw("TOKEN_OUTPUT", <<"o", "u", "t", "p", "u", "t">>)
IF_        == Kw("TOKEN_IF", <<"i", "f">>)
ELSE_      == Kw("TOKEN_ELSE", <<"e", "l", "s", "e">>)
FOR        == Kw("TOKEN_FOR", <<"f", "o", "r">>)
WHILE      == Kw("TOKEN_WHILE", <<"w", "h", "i", "l", "e">>)
IN_        == Kw("TOKEN_IN", <<"i", "n">>)
AS         == Kw("TOKEN_AS", <<"a", "s">>)
AND        == Kw("TOKEN_AND", <<"a", "n", "d">>)
OR         == Kw("TOKEN_OR", <<"o", "r">>)
NOT        == Kw("TOKEN_NOT", <<"n", "o", "t">>)
TRUE_      == Kw("TOKEN_TRUE", <<"t", "r", "u", "e">>)
FALSE_     == Kw("TOKEN_FALSE", <<"f", "a", "l", "s", "e">>)
LBRACE     == Kw("TOKEN_LBRACE", <<"{">>)
RBRACE     == Kw("TOKEN_RBRACE", <<"}">>)
LPAREN     == Kw("TOKEN_LPAREN", <<"(">>)
RPAREN     == Kw("TOKEN_RPAREN", <<")">>)
COMMA      == Kw("TOKEN_COMMA", <<",">>)
SEMICOLON  == Kw("TOKEN_SEMICOLON", <<";">>)
ASSIGN     == Kw("TOKEN_ASSIGN", <<"=">>)
EQ         == Kw("TOKEN_EQ", <<"=", "=">>)
NE         == Kw("TOKEN_NE", <<"!", "=">>)
LT         == Kw("TOKEN_LT", <<"<">>)
GT         == Kw("TOKEN_GT", <<">">>)
LE         == Kw("TOKEN_LE", <<"<", "=">>)
GE         == Kw("TOKEN_GE", <<">", "=">>)
ADD        == Kw("TOKEN_ADD", <<"+">>)
SUB        == Kw("TOKEN_SUB", <<"-">>)
MUL        == Kw("TOKEN_MUL", <<"*">>)
DIV        == Kw("TOKEN_DIV", <<"/">>)
MOD        == Kw("TOKEN_MOD", <<"%">>)
POW        == Kw("TOKEN_POW", <<"^">>)
EOF        == Kw("TOKEN_EOF", <<>>)

Ident(name) == Kw("TOKEN_IDENTIFIER", name)

Digit(n) == <<"0", "1", "2", "3", "4", "5", "6", "7", "8", "9">>[n + 1]

Num(n) == [type |-> "TOKEN_NUMBER", lexeme |-> <<Digit(n)>>,
           value |-> [string_val |-> <<>>, number_val |-> n]]

Str(text) == [type |-> "TOKEN_STRING", lexeme |-> <<"\"">> \o text \o <<"\"">>,
              value |-> [string_val |-> text, number_val |-> 0]]

Raw(text) == [type |-> "TOKEN_RAW", lexeme |-> <<"r", "\"">> \o text \o <<"\"">>,
              value |-> [string_val |-> text, number_val |-> 0]]

VarRef(name) == Kw("TOKEN_VARIABLE_REF", <<"$">> \o name)

TemplateCall(name) == Kw("TOKEN_TEMPLATE_CALL", <<"@">> \o name)

Lexer(symbols) ==
    LET all == symbols \o <<EOF>>
    IN  [i \in 1..Len(all) |->
            [type |-> all[i].type, lexeme |-> all[i].lexeme,
             value |-> all[i].value,
             position |-> [line |-> 1, column |-> i, filename |-> "<input>"]]]

\* The symbols of a token array, without the closing end-of-input token.
Symbols(lexer) ==
    [i \in 1..(Len(lexer) - 1) |->
        [type |-> lexer[i].type, lexeme |-> lexer[i].lexeme,
         value |-> lexer[i].value]]

\* All sequences of at most n members of S.
SeqsUpTo(S, n) == UNION {[1..k -> S] : k \in 0..n}

\* The concatenation of a sequence of sequences.
RECURSIVE Flatten(_)
Flatten(ss) == IF ss = <<>> THEN <<>> ELSE Head(ss) \o Flatten(Tail(ss))

-----------------------------------------------------------------------------
(* Well-formed programs, generated from the statement grammar:             *)
(*   Program := Statement* EOF, Statement := PromptDef | VarDecl | ...     *)

X == Ident(<<"x">>)
Y == Ident(<<"y">>)
Text == Str(<<"s">>)
RawText == Raw(<<"r">>)
V == VarRef(<<"v">>)
T == TemplateCall(<<"t">>)

CompareOps == {EQ, NE, LT, GT, LE, GE}

\* The binary operators, each with its precedence level (1 lowest).
Level(op) ==
    CASE op = OR -> 1
      [] op = AND -> 2
      [] op \in {EQ, NE} -> 3
      [] op \in {LT, GT, LE, GE} -> 4
      [] op \in {ADD, SUB} -> 5
      [] op \in {MUL, DIV, MOD} -> 6
      [] op = POW -> 7

BinaryOps == {OR, AND, EQ, NE, LT, GT, LE, GE, ADD, SUB, MUL, DIV, MOD, POW}

WfExpression ==
    { <<X>>, <<Num(1)>>, <<Text>>, <<NOT, TRUE_>>,
      <<LPAREN, X, OR, FALSE_, RPAREN>> }

\* (Expression (',' Expression)*)?
WfArguments ==
    { <<>>, <<X>>, <<Num(1)>>, <<X, COMMA, Num(1)>>, <<Num(1), COMMA, X>> }

WfPlainElement == { <<Text>>, <<RawText>>, <<V>>, <<X>> }

WfInnerBody == { <<>>, <<Text>>, <<V, Text>>, <<WHILE, X, LBRACE, RBRACE>> }

WfElement ==
    WfPlainElement
    \cup { <<T, LPAREN>> \o a \o <<RPAREN>> : a \in WfArguments }
    \cup { <<NOT, TRUE_>> }
    \cup { <<IF_, X, LBRACE>> \o b \o <<RBRACE>> : b \in WfInnerBody }
    \cup { <<IF_, X, LBRACE>> \o b[1] \o <<RBRACE, ELSE_, LBRACE>> \o b[2]
               \o <<RBRACE>> : b \in WfInnerBody \X WfInnerBody }
    \cup { <<FOR, Y, IN_, X, LBRACE>> \o b \o <<RBRACE>> : b \in WfInnerBody }
    \cup { <<WHILE, X, LBRACE>> \o b \o <<RBRACE>> : b \in WfInnerBody }

\* ElementList := Element*
WfElementList ==
    { Flatten(es) : es \in SeqsUpTo(WfPlainElement, MaxElements) }
    \cup WfElement

WfPromptDef ==
    { <<PROMPT, Ident(<<"p">>), LBRACE>> \o b \o <<RBRACE>> :
          b \in WfElementList }

WfVarDecl ==
    { <<VAR, X, ASSIGN>> \o e \o <<SEMICOLON>> : e \in WfExpression }

WfParameters == { <<>>, <<Ident(<<"a">>)>>,
                  <<Ident(<<"a">>), COMMA, Ident(<<"b">>)>> }

WfTemplateDef ==
    { <<TEMPLATE, Ident(<<"t">>), LPAREN>> \o ps \o <<RPAREN, LBRACE>> \o b
          \o <<RBRACE>> : ps \in WfParameters, b \in {<<>>, <<Text, V>>} }

\* ConstraintExpr ';'
WfConstraint ==
    { <<X, op, Num(1), SEMICOLON>> : op \in CompareOps \cup {IN_} }

WfConstraintDef ==
    { <<CONSTRAINT, Ident(<<"c">>), LBRACE>> \o cs \o <<RBRACE>> :
          cs \in {<<>>, <<X, LT, Num(1), SEMICOLON, Y, IN_, X, SEMICOLON>>}
                 \cup WfConstraint }

FormatName == { <<"J", "S", "O", "N">>, <<"T", "E", "X", "T">>,
                <<"M", "A", "R", "K", "D", "O", "W", "N">> }

WfOutputSpec ==
    { <<OUTPUT, Ident(<<"o">>), AS, Ident(f), SEMICOLON>> : f \in FormatName }

WfStatement ==
    WfPromptDef \cup WfVarDecl \cup WfTemplateDef \cup WfConstraintDef
    \cup WfOutputSpec

\* One statement of each kind, for the programs of several statements.
CoreStatement ==
    { <<PROMPT, Ident(<<"p">>), LBRACE, Text, V, RBRACE>>,
      <<VAR, X, ASSIGN, Num(5), SEMICOLON>>,
      <<TEMPLATE, Ident(<<"t">>), LPAREN, Ident(<<"a">>), RPAREN, LBRACE,
        Text, RBRACE>>,
      <<CONSTRAINT, Ident(<<"c">>), LBRACE, X, LT, Num(1), SEMICOLON, RBRACE>>,
      <<OUTPUT, Ident(<<"o">>), AS, Ident(<<"J", "S", "O", "N">>), SEMICOLON>> }

WfProgram ==
    { <<s>> : s \in WfStatement } \cup SeqsUpTo(CoreStatement, MaxStatements)

WfSource == { Flatten(prog) : prog \in WfProgram }

-----------------------------------------------------------------------------
(* Other inputs *)

\* Arbitrary token sequences.
JunkSymbol ==
    { PROMPT, VAR, CONSTRAINT, OUTPUT, X, Num(1), LBRACE, RBRACE, LPAREN,
      SEMICOLON, ASSIGN, ADD, RawText, T }

JunkSource == SeqsUpTo(JunkSymbol, MaxJunk)

\* seq without its i-th member.
RemoveAt(seq, i) == SubSeq(seq, 1, i - 1) \o SubSeq(seq, i + 1, Len(seq))

\* Statements that the grammar does not accept: a statement with one of
\* the tokens the grammar requires left out, and a lone stray token.
MalformedStatement ==
    { RemoveAt(<<VAR, Y, ASSIGN, Num(1), SEMICOLON>>, i) : i \in 1..5 }
    \cup { RemoveAt(<<OUTPUT, Ident(<<"o">>), AS,
                      Ident(<<"J", "S", "O", "N">>), SEMICOLON>>, i) :
               i \in 1..5 }
    \cup { RemoveAt(<<PROMPT, Ident(<<"p">>), LBRACE, Text, RBRACE>>, i) :
               i \in {1, 2, 3, 5} }
    \cup { RemoveAt(<<CONSTRAINT, Ident(<<"c">>), LBRACE, X, LT, Num(1),
                      SEMICOLON, RBRACE>>, i) : i \in 1..8 }
    \cup { RemoveAt(<<TEMPLATE, Ident(<<"t">>), LPAREN, Ident(<<"a">>),
                      RPAREN, LBRACE, Text, RBRACE>>, i) :
               i \in {1, 2, 3, 5, 6, 8} }
    \cup { <<SEMICOLON>>, <<X>>, <<RBRACE>> }

\* The well-formed declaration that follows the malformed statement.
GoodVarDecl == <<VAR, X, ASSIGN, Num(5), SEMICOLON>>

MalformedThenVar == { m \o GoodVarDecl : m \in MalformedStatement }

\* var x = 1 op1 2 op2 3 ;
TwoOperators ==
    { <<VAR, X, ASSIGN, Num(1), op[1], Num(2), op[2], Num(3), SEMICOLON>> :
          op \in BinaryOps \X BinaryOps }

\* 1 ^ 2 ^ ... ^ n
RECURSIVE PowChain(_)
PowChain(n) == IF n = 1 THEN <<Num(1)>> ELSE PowChain(n - 1) \o <<POW, Num(n)>>

PowSource ==
    { <<VAR, X, ASSIGN>> \o PowChain(n) \o <<SEMICOLON>> : n \in 1..MaxChain }
    \cup { <<VAR, X, ASSIGN, Num(2), POW, Num(3), POW, Num(2), SEMICOLON>>,
           <<VAR, X, ASSIGN, SUB, X, POW, NOT, Y, SEMICOLON>> }

Source ==
    WfSource \cup JunkSource \cup MalformedThenVar \cup TwoOperators
    \cup PowSource

-----------------------------------------------------------------------------
(* parser_create and the specification of a parse *)

\* A single thread: no other parser exists.
OneThread == [phase |-> "single"]

\* main as it reaches the call of parser_parse, with its -O option.
main_at_parse(optimize) ==
    [pc |-> "parse", optimize |-> optimize, stages |-> <<>>, status |-> 0]

parser_create(lexer) ==
    [lexer |-> lexer, current |-> 0, errors |-> <<>>,
     heap |-> "ok", alloc_failed |-> FALSE]

Init ==
    /\ parser \in { parser_create(Lexer(s)) : s \in Source }
    /\ stack = <<>>
    /\ ret = NULL
    /\ ast = PENDING
    /\ call = NoCall
    /\ main = main_at_parse(FALSE)
    /\ window = NULL
    /\ sched = OneThread

Spec == Init /\ [][Next]_vars

\* The allocator runs out of memory while a parse is under way: from now on
\* every request of this parser is refused.
out_of_memory ==
    /\ stack # <<>>
    /\ Len(parser.errors) <= MaxErrors
    /\ parser.heap = "ok"
    /\ parser' = [parser EXCEPT !.heap = "failing"]
    /\ UNCHANGED <<stack, ret, ast, call, main, window, sched>>

NextAlloc == Next \/ out_of_memory

\* A parse during which memory may run out.
SpecAlloc == Init /\ [][NextAlloc]_vars

-----------------------------------------------------------------------------
(* Properties of the parse *)

\* parser_parse has returned.
Parsed == ast # PENDING

\* The source whose tokens the parser was given.
Input == Symbols(parser.lexer)

StatementKeyword ==
    {"TOKEN_PROMPT", "TOKEN_VAR", "TOKEN_TEMPLATE", "TOKEN_CONSTRAINT",
     "TOKEN_OUTPUT"}

\* The number of top-level definitions of a well-formed source: each begins
\* with one statement keyword, and no keyword stands anywhere else.
Definitions(symbols) ==
    Cardinality({i \in 1..Len(symbols) : symbols[i].type \in StatementKeyword})

\* The index (from 0) of the end-of-input token.
EofIndex == Len(parser.lexer) - 1

IsNumber(node, n) == node.type = "AST_NUMBER_LITERAL" /\ node.value = n

IsPrefix(s, t) == Len(s) <= Len(t) /\ SubSeq(t, 1, Len(s)) = s

\* C1: every loop of the parser (statements, elements, constraints)
\* consumes at least one token per iteration: a loop that is back at its
\* head after an iteration finds the cursor beyond where the iteration began.
C1_LoopsConsume ==
    (stack # <<>> /\ Top.pc = "loop" /\ Top.iter_start # <<>>)
        => parser.current > Top.iter_start[1]

\* C2: a well-formed program is parsed without any ParseError, into a
\* Program with one statement per top-level definition.
C2_WellFormedParses ==
    Input \in WfSource =>
        /\ parser.errors = <<>>
        /\ Parsed => /\ ast.type = "AST_PROGRAM"
                     /\ Len(ast.statements) = Definitions(Input)

\* C3: a malformed statement followed by a well-formed VAR declaration gives
\* at least one ParseError and a Program that holds the declaration's node.
C3_RecoversVarDecl ==
    (Parsed /\ Input \in MalformedThenVar) =>
        /\ Len(parser.errors) >= 1
        /\ ast.type = "AST_PROGRAM"
        /\ \E i \in 1..Len(ast.statements) :
              /\ ast.statements[i].type = "AST_VAR_DECL"
              /\ ast.statements[i].name = <<"x">>
              /\ IsNumber(ast.statements[i].initializer, 5)

\* The initializer of the only statement of the program parsed.
Initializer == ast.statements[1].initializer

\* C4: `1 op1 2 op2 3` with op2 of a higher level than op1 gives
\* BinaryExpr(op1, 1, BinaryExpr(op2, 2, 3)); so `1 + 2 * 3` gives
\* BinaryExpr(+, 1, BinaryExpr(*, 2, 3)).
C4_Precedence ==
    (Parsed /\ Input \in TwoOperators /\ Level(Input[7]) > Level(Input[5])) =>
        /\ Len(ast.statements) = 1
        /\ Initializer.type = "AST_BINARY_EXPR"
        /\ Initializer.op = Input[5].type
        /\ IsNumber(Initializer.left, 1)
        /\ Initializer.right.type = "AST_BINARY_EXPR"
        /\ Initializer.right.op = Input[7].type
        /\ IsNumber(Initializer.right.left, 2)
        /\ IsNumber(Initializer.right.right, 3)

\* 1 ^ 2 ^ ... ^ n as a tree: number i, POW, and the rest to its right.
RECURSIVE RightNested(_, _, _)
RightNested(node, i, n) ==
    IF i = n THEN IsNumber(node, n)
    ELSE /\ node.type = "AST_BINARY_EXPR"
         /\ node.op = "TOKEN_POW"
         /\ IsNumber(node.left, i)
         /\ RightNested(node.right, i + 1, n)

PowInput(n) == <<VAR, X, ASSIGN>> \o PowChain(n) \o <<SEMICOLON>>

\* C5: a chain of n operands joined by `^` gives a right-nested tree whose
\* every node has operator POW; `2 ^ 3 ^ 2` gives
\* BinaryExpr(^, 2, BinaryExpr(^, 3, 2)).
C5_PowerRightAssociative ==
    Parsed =>
        /\ \A n \in 1..MaxChain :
              Input = PowInput(n) =>
                  /\ parser.errors = <<>>
                  /\ Len(ast.statements) = 1
                  /\ RightNested(Initializer, 1, n)
        /\ Input = <<VAR, X, ASSIGN, Num(2), POW, Num(3), POW, Num(2),
                     SEMICOLON>> =>
                  /\ Initializer.type = "AST_BINARY_EXPR"
                  /\ Initializer.op = "TOKEN_POW"
                  /\ IsNumber(Initializer.left, 2)
                  /\ Initializer.right.type = "AST_BINARY_EXPR"
                  /\ Initializer.right.op = "TOKEN_POW"
                  /\ IsNumber(Initializer.right.left, 3)
                  /\ IsNumber(Initializer.right.right, 2)

C5_Witness == Parsed /\ Input = PowInput(3) /\ Initializer.right.op = "TOKEN_POW"

\* C6: on the input that holds the end-of-input token alone the cursor
\* stays at 0, no error is recorded, and the Program returned is empty.
C6_EmptyInput ==
    Len(parser.lexer) = 1 =>
        /\ parser.current = 0
        /\ parser.errors = <<>>
        /\ Parsed => ast = ast_program_create(<<>>)

C6_Witness == Len(parser.lexer) = 1 /\ Parsed

\* C7: the cursor is never beyond the end-of-input token, the current token
\* is never null, and one more parser_advance leaves the cursor within the
\* input as well.
C7_CursorWithinInput ==
    /\ parser.current <= EofIndex
    /\ parser_current(parser).r # NULL
    /\ parser_advance(parser).p.current <= EofIndex

C7_Witness == Parsed /\ parser.current = EofIndex /\ EofIndex > 0

TokenType ==
    { s.type : s \in { PROMPT, VAR, TEMPLATE, CONSTRAINT, OUTPUT, IF_, ELSE_,
                       FOR, WHILE, IN_, AS, AND, OR, NOT, TRUE_, FALSE_,
                       LBRACE, RBRACE, LPAREN, RPAREN, COMMA, SEMICOLON,
                       ASSIGN, EQ, NE, LT, GT, LE, GE, ADD, SUB, MUL, DIV,
                       MOD, POW, EOF, X, Num(1), Text, RawText, V, T } }

\* C9: no step of a parse changes a token of the sequence, and in every
\* state parser_peek(n) and parser_check(kind) give back the parser as it
\* was: cursor, error list and tokens.
C9_TokensUntouched ==
    /\ [][parser'.lexer = parser.lexer]_vars
    /\ [](/\ \A offset \in 0..MaxOffset :
                parser_peek(parser, offset).p = parser
          /\ \A type \in TokenType : parser_check(parser, type).p = parser)

C9_Witness == Parsed /\ parser.current > 0 /\ parser.errors # <<>>

\* C10: the error list only grows at its end: after every step the list
\* before the step is a prefix of the list after it.
C10_ErrorsAppendOnly == [][IsPrefix(parser.errors, parser'.errors)]_vars

C10_Witness == Parsed /\ Len(parser.errors) >= 2

-----------------------------------------------------------------------------
(* The helpers on their own: any helper, called with any argument, in any *)
(* state of a parser that is not parsing.                                  *)

HelperSymbol == { VAR, X, SEMICOLON }

HelperType ==
    { "TOKEN_VAR", "TOKEN_IDENTIFIER", "TOKEN_SEMICOLON", "TOKEN_RBRACE",
      "TOKEN_EOF" }

HelperMessage ==
    { "Expected variable name", "Expected ';' after variable declaration" }

Called(op, type, message, offset) ==
    [op |-> op, type |-> type, message |-> message, offset |-> offset]

\* A helper call that gave back the struct p and the value r.
Helper(made, p, r) ==
    /\ stack = <<>>
    /\ Len(parser.errors) <= MaxHelperErrors
    /\ parser' = p
    /\ ret' = r
    /\ call' = made
    /\ UNCHANGED <<stack, ast, main, window, sched>>

call_parser_peek ==
    \E offset \in 0..MaxOffset :
        LET c == parser_peek(parser, offset)
        IN  Helper(Called("parser_peek", "", "", offset), c.p, c.r)

call_parser_advance ==
    LET c == parser_advance(parser)
    IN  Helper(Called("parser_advance", "", "", 0), c.p, c.r)

call_parser_check ==
    \E type \in HelperType :
        LET c == parser_check(parser, type)
        IN  Helper(Called("parser_check", type, "", 0), c.p, c.r)

call_parser_match ==
    \E type \in HelperType :
        LET c == parser_match(parser, type)
        IN  Helper(Called("parser_match", type, "", 0), c.p, c.r)

call_parser_error ==
    \E message \in HelperMessage :
        Helper(Called("parser_error", "", message, 0),
               parser_error(parser, message), NULL)

call_parser_consume ==
    \E type \in HelperType, message \in HelperMessage :
        LET c == parser_consume(parser, type, message)
        IN  Helper(Called("parser_consume", type, message, 0), c.p, c.r)

InitHelpers ==
    /\ parser \in { parser_create(Lexer(s)) :
                        s \in SeqsUpTo(HelperSymbol, MaxHelperLen) }
    /\ stack = <<>>
    /\ ret = NULL
    /\ ast = PENDING
    /\ call = NoCall
    /\ main = main_at_parse(FALSE)
    /\ window = NULL
    /\ sched = OneThread

NextHelpers ==
    \/ call_parser_peek
    \/ call_parser_advance
    \/ call_parser_check
    \/ call_parser_match
    \/ call_parser_error
    \/ call_parser_consume

SpecHelpers == InitHelpers /\ [][NextHelpers]_vars

\* The token under the cursor.
CurrentToken == lexer_get_token(parser.lexer, parser.current)

\* parser_consume failed: one error with the message and the position of
\* the offending token is appended, null is returned, the cursor stays.
ConsumeFails ==
    /\ parser'.errors = Append(parser.errors,
                               [message |-> call'.message,
                                position |-> CurrentToken.position])
    /\ ret' = NULL
    /\ parser'.current = parser.current
    /\ parser'.lexer = parser.lexer

-----------------------------------------------------------------------------
(* Allocation failure *)

\* C11: once an allocation of the parser has failed the parse is over: no
\* further token is consumed, no further error is recorded, and the result
\* of parser_parse, once there, is null.
C11_AllocationFailureFatal ==
    [][parser.alloc_failed =>
          /\ parser'.current = parser.current
          /\ parser'.errors = parser.errors
          /\ ast' \in {PENDING, NULL}]_vars

-----------------------------------------------------------------------------
(* main, from its call of parser_parse on.  What semantic.c, optimizer.c  *)
(* and codegen.c answer is drawn freely.                                   *)

parser_has_errors(p) == Len(p.errors) > 0

MainChanges == UNCHANGED <<parser, stack, ret, ast, call, window, sched>>

Exit(m, status) == [m EXCEPT !.pc = "exit", !.status = status]

Started(m, stage) == [m EXCEPT !.stages = Append(@, stage)]

\* A test of the parse result that looks at the returned tree alone.
main_parsed_tree_only ==
    /\ main.pc = "parse"
    /\ Parsed
    /\ main' = IF ast = NULL THEN Exit(main, 1)
                             ELSE [main EXCEPT !.pc = "semantic"]
    /\ MainChanges

main_parsed ==
    /\ main.pc = "parse"
    /\ Parsed
    /\ main' = IF ast = NULL \/ parser_has_errors(parser)
               THEN Exit(main, 1)
               ELSE [main EXCEPT !.pc = "semantic"]
    /\ MainChanges

main_semantic ==
    /\ main.pc = "semantic"
    /\ \E created \in BOOLEAN, passed \in BOOLEAN :
          main' = IF created /\ passed
                  THEN [Started(main, "semantic") EXCEPT !.pc = "optimize"]
                  ELSE Exit(Started(main, "semantic"), 1)
    /\ MainChanges

main_optimize ==
    /\ main.pc = "optimize"
    /\ main' = [(IF main.optimize THEN Started(main, "optimization")
                                  ELSE main) EXCEPT !.pc = "codegen"]
    /\ MainChanges

main_codegen ==
    /\ main.pc = "codegen"
    /\ \E created \in BOOLEAN, generated \in BOOLEAN :
          main' = IF created /\ generated
                  THEN [Started(main, "codegen") EXCEPT !.pc = "write"]
                  ELSE Exit(Started(main, "codegen"), 1)
    /\ MainChanges

main_write ==
    /\ main.pc = "write"
    /\ \E written \in BOOLEAN :
          main' = Exit(Started(main, "write"), IF written THEN 0 ELSE 1)
    /\ MainChanges

InitMain ==
    /\ parser \in { parser_create(Lexer(s)) : s \in Source }
    /\ stack = <<>>
    /\ ret = NULL
    /\ ast = PENDING
    /\ call = NoCall
    /\ main \in { main_at_parse(optimize) : optimize \in BOOLEAN }
    /\ window = NULL
    /\ sched = OneThread

NextMain ==
    \/ NextAlloc
    \/ main_parsed
    \/ main_semantic
    \/ main_optimize
    \/ main_codegen
    \/ main_write

SpecMain == InitMain /\ [][NextMain]_vars

\* C12: when parser_parse returned null or left errors behind, main starts
\* no later stage (semantic analysis, optimization, code generation, output
\* write) and, once it has exited, its status is 1.
C12_NoStageAfterErrors ==
    (Parsed /\ (ast = NULL \/ parser_has_errors(parser))) =>
        /\ main.stages = <<>>
        /\ main.pc \in {"parse", "exit"}
        /\ main.pc = "exit" => main.status = 1

C12_Witness ==
    /\ main.pc = "exit"
    /\ ast # NULL
    /\ parser_has_errors(parser)

-----------------------------------------------------------------------------
(* Recovery *)

SyncType == { StatementStart[i] : i \in 1..Len(StatementStart) }

\* The first index at or after the cursor of p whose token is end-of-input
\* or starts a statement.
SyncPoint(p) ==
    CHOOSE i \in p.current..(Len(p.lexer) - 1) :
        /\ p.lexer[i + 1].type \in SyncType
        /\ \A j \in p.current..(i - 1) : p.lexer[j + 1].type \notin SyncType

\* C13: when parse_statement has returned no node, the step of parse_program
\* that follows leaves the cursor on the first token at or after it that is
\* end-of-input or PROMPT, VAR, TEMPLATE, CONSTRAINT or OUTPUT, and the loop
\* test that follows hands exactly that token to the next parse_statement.
C13_Synchronizes ==
    /\ [][(At("parse_program", "stmt") /\ ret = NULL) =>
            /\ parser'.current = SyncPoint(parser)
            /\ parser'.errors = parser.errors
            /\ Top'.fn = "parse_program" /\ Top'.pc = "loop"]_vars
    /\ [][At("parse_program", "loop") =>
            /\ parser'.current = parser.current
            /\ Top'.fn = "parse_statement" => Top'.pc = "entry"]_vars

C13_Witness ==
    /\ stack # <<>>
    /\ Top.fn = "parse_statement"
    /\ stack[Len(stack) - 1].statements = <<>>
    /\ parser.errors # <<>>
    /\ parser.current > 1
    /\ CurrentToken.type = "TOKEN_VAR"
    /\ Input[parser.current].type \notin SyncType

-----------------------------------------------------------------------------
(* Propagation of failures *)

\* The function on top of the stack has just been handed the null result
\* of an operand, expression or element that it called for.  (The statement
\* loop and the constraint loop are left out: they are not expression or
\* element productions.)
ChildFailed ==
    /\ stack # <<>>
    /\ Top.fn \notin {"parser_parse", "parse_program", "parse_constraint_def"}
    /\ Top.pc \notin {"entry", "loop"}
    /\ ret = NULL

\* C14: a production handed the null result of its operand, expression or
\* element returns null itself in its next step: it builds no node around
\* the failed child and parses nothing more.
C14_FailurePropagates ==
    [][ChildFailed => /\ Len(stack') = Len(stack) - 1
                      /\ ret' = NULL
                      /\ parser'.current = parser.current]_vars

-----------------------------------------------------------------------------
(* Positions *)

\* pos is a position of the input: that of one of its tokens, from line 1
\* and column 1 on.
PositionOfToken(pos) ==
    /\ pos.line >= 1
    /\ pos.column >= 1
    /\ \E i \in 1..Len(parser.lexer) : parser.lexer[i].position = pos

\* C15: every error recorded, and every node a production returns, carries
\* the position of a token of the input, with line >= 1 and column >= 1.
C15_PositionsFromTokens ==
    /\ \A i \in 1..Len(parser.errors) :
          PositionOfToken(parser.errors[i].position)
    /\ (ret # NULL /\ "position" \in DOMAIN ret) =>
          PositionOfToken(ret.position)

-----------------------------------------------------------------------------
(* Text elements *)

\* C16: parse_text_element, entered on a RAW or a STRING token, consumes it,
\* records no error, and returns a TextElement whose is_raw is 1 for RAW
\* and 0 for STRING.
C16_RawAndStringText ==
    [][(At("parse_text_element", "entry")
            /\ CurrentToken.type \in {"TOKEN_RAW", "TOKEN_STRING"}) =>
          /\ parser'.current = parser.current + 1
          /\ parser'.errors = parser.errors
          /\ ret'.type = "AST_TEXT_ELEMENT"
          /\ ret'.is_raw = IF CurrentToken.type = "TOKEN_RAW" THEN 1 ELSE 0
          /\ ret'.text = CurrentToken.value.string_val]_vars

-----------------------------------------------------------------------------
(* Two parsers, each over its own tokens, run by two threads.  Each input *)
(* is first parsed alone; then two fresh parsers are created and their    *)
(* steps interleaved: a context switch may fall between any two steps.    *)

\* Programs that between them go through every production.
ThreadProgram ==
    { <<PROMPT, Ident(<<"p">>), LBRACE, T, LPAREN, X, COMMA, Num(1), RPAREN,
        IF_, X, LBRACE, Text, RBRACE, ELSE_, LBRACE, V, RBRACE,
        FOR, Y, IN_, X, LBRACE, RBRACE, WHILE, X, LBRACE, RBRACE, RBRACE>>,
      <<VAR, X, ASSIGN, SUB, LPAREN, Num(1), ADD, Num(2), RPAREN, POW, NOT, Y,
        SEMICOLON,
        TEMPLATE, Ident(<<"t">>), LPAREN, Ident(<<"a">>), RPAREN, LBRACE,
        Text, RBRACE,
        CONSTRAINT, Ident(<<"c">>), LBRACE, X, LT, Num(1), SEMICOLON, RBRACE,
        OUTPUT, Ident(<<"o">>), AS, Ident(<<"J", "S", "O", "N">>),
        SEMICOLON>>,
      <<VAR, ASSIGN, Num(1), SEMICOLON, OUTPUT, Ident(<<"o">>), SEMICOLON>> }

\* What the other thread parses.
OtherProgram == { <<X, X>>, GoodVarDecl }

\* The parser instance that is running, with the registers of its thread.
Instance == [parser |-> parser, stack |-> stack, ret |-> ret, ast |-> ast]

\* A parser just created over lexer, parser_parse not yet called.
Fresh(lexer) ==
    [parser |-> parser_create(lexer), stack |-> <<>>, ret |-> NULL,
     ast |-> PENDING]

\* What a parse leaves behind.
Outcome(i) ==
    [current |-> i.parser.current, errors |-> i.parser.errors, ast |-> i.ast]

\* Thread i gets the processor.
Load(i) ==
    /\ parser' = i.parser
    /\ stack' = i.stack
    /\ ret' = i.ret
    /\ ast' = i.ast
    /\ UNCHANGED <<call, main, window>>

\* A parse that ran alone is over: its outcome is kept, and the second
\* input is parsed alone, or both parsers are created anew.
parsed_alone ==
    /\ sched.phase = "alone"
    /\ Parsed
    /\ IF sched.running = 1
       THEN /\ sched' = [sched EXCEPT !.solo = <<Outcome(Instance)>>,
                                      !.running = 2]
            /\ Load(Fresh(sched.inputs[2]))
       ELSE /\ sched' = [sched EXCEPT !.solo = Append(@, Outcome(Instance)),
                                      !.phase = "both", !.running = 1,
                                      !.other = Fresh(sched.inputs[2])]
            /\ Load(Fresh(sched.inputs[1]))

context_switch ==
    /\ sched.phase = "both"
    /\ sched' = [sched EXCEPT !.running = 3 - @, !.other = Instance,
                              !.preempted = @ \/ (stack # <<>> /\
                                                  sched.other.stack # <<>>)]
    /\ Load(sched.other)

InitTwo ==
    /\ sched \in { [phase |-> "alone", running |-> 1,
                    inputs |-> <<Lexer(a), Lexer(b)>>, solo |-> <<>>,
                    other |-> NULL, preempted |-> FALSE] :
                       a \in ThreadProgram, b \in OtherProgram }
    /\ parser = parser_create(sched.inputs[1])
    /\ stack = <<>>
    /\ ret = NULL
    /\ ast = PENDING
    /\ call = NoCall
    /\ main = main_at_parse(FALSE)
    /\ window = NULL

NextTwo ==
    \/ Next
    \/ parsed_alone
    \/ context_switch

SpecTwo == InitTwo /\ [][NextTwo]_vars

\* C17: of two parsers over different token sequences whose steps are
\* interleaved, each ends with the cursor, the error list and the tree it
\* ends with when it runs alone.
C17_InterleavingIrrelevant ==
    sched.phase = "both" =>
        /\ Parsed => Outcome(Instance) = sched.solo[sched.running]
        /\ sched.other.ast # PENDING =>
              Outcome(sched.other) = sched.solo[3 - sched.running]

C17_Witness ==
    /\ sched.phase = "both"
    /\ sched.preempted
    /\ Parsed
    /\ sched.other.ast # PENDING
    /\ sched.inputs[1] # sched.inputs[2]
    /\ parser.errors # <<>>

-----------------------------------------------------------------------------
(* The context window (context_window.c).  A `const char*` is NULL or a   *)
(* CString; the linked list from head to tail is the sequence `messages`, *)
(* oldest first, and a Message* is an index into it.  The metrics block,  *)
(* which no operation reads back, is not part of the state.  `alloc`      *)
(* tells whether the allocations of a call succeed.                        *)

DEFAULT_TOKEN_RATIO == 4
MAX_MAX_TOKENS == 1073741823
MIN_MAX_TOKENS == 1
DEFAULT_WINDOW_SIZE == 2048

CString(chars) == [type |-> "STRING", chars |-> chars]

\* A text too long to write down: `length` characters, all the same.
LongText(hi, lo) ==
    [type |-> "STRING", fill |-> "a", length |-> [hi |-> hi, lo |-> lo]]

\* A size_t is kept as two digits, hi * 2^16 + lo, so that lengths beyond
\* the range of int can be counted; an int is an integer of 32 bits.
Limb == 2 ^ 16

SizeT(hi, lo) == [hi |-> hi, lo |-> lo]

\* n + k in size_t, for 0 <= k < 2^16.
size_add(n, k) ==
    LET lo == n.lo + k
    IN  SizeT(n.hi + lo \div Limb, lo % Limb)

\* n / d in size_t, for 0 < d < 2^15.
size_div(n, d) ==
    LET t == (n.hi % d) * Limb + n.lo
    IN  SizeT(n.hi \div d, t \div d)

\* The conversion (int)n: the low 32 bits of n, in two's complement.
to_int(n) ==
    LET h == n.hi % Limb
    IN  IF h >= Limb \div 2 THEN (h - Limb) * Limb + n.lo
        ELSE h * Limb + n.lo

strlen(text) ==
    IF "chars" \in DOMAIN text THEN SizeT(0, Len(text.chars))
    ELSE text.length

calculate_token_count_ex(text, ratio) ==
    IF text = NULL \/ ratio <= 0 THEN 0
    ELSE to_int(size_div(size_add(strlen(text), ratio - 1), ratio))

calculate_token_count(text) ==
    calculate_token_count_ex(text, DEFAULT_TOKEN_RATIO)

create_message(type, priority, content, token_ratio, alloc) ==
    IF content = NULL THEN NULL
    ELSE IF ~alloc THEN NULL
    ELSE [type |-> type, priority |-> priority, content |-> content,
          token_count |-> calculate_token_count_ex(content, token_ratio)]

\* Unlinks and frees the msg-th message of the list.
remove_message(w, msg) ==
    IF w = NULL \/ msg \notin 1..Len(w.messages) THEN w
    ELSE [w EXCEPT !.total_tokens = @ - w.messages[msg].token_count,
                   !.message_count = @ - 1,
                   !.messages = SubSeq(@, 1, msg - 1)
                                    \o SubSeq(@, msg + 1, Len(@))]

\* One phase of compress_old_messages: from message `current` on, remove
\* the messages of the given priority while the window is over its limit.
RECURSIVE compress_phase(_, _, _)
compress_phase(w, priority, current) ==
    IF current <= Len(w.messages) /\ w.total_tokens > w.max_tokens
    THEN IF w.messages[current].priority = priority
         THEN compress_phase(remove_message(w, current), priority, current)
         ELSE compress_phase(w, priority, current + 1)
    ELSE w

compress_old_messages(w) ==
    IF w = NULL THEN [w |-> w, r |-> FALSE]
    ELSE IF w.config.compression = "COMPRESSION_NONE"
    THEN [w |-> w, r |-> FALSE]
    ELSE LET w1 == compress_phase(w, "PRIORITY_LOW", 1)
             w2 == IF w1.total_tokens > w1.max_tokens
                   THEN compress_phase(w1, "PRIORITY_NORMAL", 1) ELSE w1
             w3 == IF w2.total_tokens > w2.max_tokens
                   THEN compress_phase(w2, "PRIORITY_HIGH", 1) ELSE w2
         IN  [w |-> w3, r |-> w3.total_tokens <= w3.max_tokens]

context_config_default ==
    [max_tokens |-> DEFAULT_WINDOW_SIZE, min_tokens_reserve |-> 0,
     compression |-> "COMPRESSION_LOW_PRIORITY", enable_metrics |-> TRUE,
     thread_safe |-> FALSE, token_ratio |-> DEFAULT_TOKEN_RATIO,
     auto_compress |-> TRUE]

\* The validation as it would be without the upper limit on max_tokens.
context_config_validate_unbounded(config) ==
    IF config = NULL THEN FALSE
    ELSE IF config.max_tokens < MIN_MAX_TOKENS THEN FALSE
    ELSE IF config.token_ratio <= 0 THEN FALSE
    ELSE IF config.min_tokens_reserve < 0
            \/ config.min_tokens_reserve >= config.max_tokens THEN FALSE
    ELSE TRUE

context_config_validate(config) ==
    IF config = NULL THEN FALSE
    ELSE IF config.max_tokens < MIN_MAX_TOKENS
            \/ config.max_tokens > MAX_MAX_TOKENS THEN FALSE
    ELSE IF config.token_ratio <= 0 THEN FALSE
    ELSE IF config.min_tokens_reserve < 0
            \/ config.min_tokens_reserve >= config.max_tokens THEN FALSE
    ELSE TRUE

context_window_create_with_config(config, alloc) ==
    IF config = NULL THEN NULL
    ELSE IF ~context_config_validate(config) THEN NULL
    ELSE IF ~alloc THEN NULL
    ELSE [messages |-> <<>>, total_tokens |-> 0, message_count |-> 0,
          max_tokens |-> config.max_tokens, config |-> config]

context_window_create(max_tokens, alloc) ==
    context_window_create_with_config(
        [context_config_default EXCEPT !.max_tokens = max_tokens], alloc)

\* The forced eviction loop as it would be if it dropped the tail.
RECURSIVE evict_tail(_, _)
evict_tail(w, incoming) ==
    IF w.messages # <<>> /\ w.total_tokens + incoming > w.max_tokens
    THEN evict_tail(remove_message(w, Len(w.messages)), incoming)
    ELSE w

\* The forced eviction loop of add_message_ex and apply_config: drop the
\* head while the window holds a message and cannot take `incoming` more.
RECURSIVE evict_head(_, _)
evict_head(w, incoming) ==
    IF w.messages # <<>> /\ w.total_tokens + incoming > w.max_tokens
    THEN evict_head(remove_message(w, 1), incoming)
    ELSE w

\* add_message_ex as it would be if it made room before it looked at the
\* size of the message.
context_window_add_message_ex_evicting(w, type, priority, content, alloc) ==
    IF w = NULL \/ content = NULL
    THEN [w |-> w, r |-> FALSE, result |-> "CW_ERROR_NULL_PTR"]
    ELSE LET msg == create_message(type, priority, content,
                                   w.config.token_ratio, alloc)
         IN  IF msg = NULL
             THEN [w |-> w, r |-> FALSE, result |-> "CW_ERROR_NO_MEMORY"]
             ELSE LET w1 == evict_head(w, msg.token_count)
                  IN  IF msg.token_count > w.max_tokens
                      THEN [w |-> w1, r |-> FALSE, result |-> "CW_ERROR_FULL"]
                      ELSE [w |-> [w1 EXCEPT
                                      !.messages = Append(@, msg),
                                      !.total_tokens = @ + msg.token_count,
                                      !.message_count = @ + 1],
                            r |-> TRUE, result |-> "CW_SUCCESS"]

\* add_message_ex as it would be if a message had to be smaller than the
\* limit.
context_window_add_message_ex_strict(w, type, priority, content, alloc) ==
    IF w = NULL \/ content = NULL
    THEN [w |-> w, r |-> FALSE, result |-> "CW_ERROR_NULL_PTR"]
    ELSE LET msg == create_message(type, priority, content,
                                   w.config.token_ratio, alloc)
         IN  IF msg = NULL
             THEN [w |-> w, r |-> FALSE, result |-> "CW_ERROR_NO_MEMORY"]
             ELSE IF msg.token_count >= w.max_tokens
             THEN [w |-> w, r |-> FALSE, result |-> "CW_ERROR_FULL"]
             ELSE LET w1 == evict_head(w, msg.token_count)
                  IN  [w |-> [w1 EXCEPT
                                 !.messages = Append(@, msg),
                                 !.total_tokens = @ + msg.token_count,
                                 !.message_count = @ + 1],
                       r |-> TRUE, result |-> "CW_SUCCESS"]

context_window_add_message_ex(w, type, priority, content, alloc) ==
    IF w = NULL \/ content = NULL
    THEN [w |-> w, r |-> FALSE, result |-> "CW_ERROR_NULL_PTR"]
    ELSE LET msg == create_message(type, priority, content,
                                   w.config.token_ratio, alloc)
         IN  IF msg = NULL
             THEN [w |-> w, r |-> FALSE, result |-> "CW_ERROR_NO_MEMORY"]
             ELSE IF msg.token_count > w.max_tokens
             THEN [w |-> w, r |-> FALSE, result |-> "CW_ERROR_FULL"]
             ELSE LET w1 == IF w.total_tokens + msg.token_count > w.max_tokens
                            THEN evict_head(
                                     IF w.config.auto_compress
                                     THEN compress_old_messages(w).w ELSE w,
                                     msg.token_count)
                            ELSE w
                      w2 == [w1 EXCEPT !.messages = Append(@, msg),
                                       !.total_tokens = @ + msg.token_count,
                                       !.message_count = @ + 1]
                  IN  [w |-> w2, r |-> TRUE, result |-> "CW_SUCCESS"]

\* remove_message as it would be if it removed the newest match.
context_window_remove_message_newest(w, content) ==
    IF w = NULL \/ content = NULL THEN [w |-> w, r |-> FALSE]
    ELSE LET found == {i \in 1..Len(w.messages) :
                          w.messages[i].content.chars = content.chars}
         IN  IF found = {} THEN [w |-> w, r |-> FALSE]
             ELSE [w |-> remove_message(
                             w, CHOOSE i \in found : \A j \in found : i >= j),
                   r |-> TRUE]

context_window_remove_message(w, content) ==
    IF w = NULL \/ content = NULL THEN [w |-> w, r |-> FALSE]
    ELSE LET found == {i \in 1..Len(w.messages) :
                          w.messages[i].content.chars = content.chars}
         IN  IF found = {} THEN [w |-> w, r |-> FALSE]
             ELSE [w |-> remove_message(
                             w, CHOOSE i \in found : \A j \in found : i <= j),
                   r |-> TRUE]

context_window_clear(w) ==
    IF w = NULL THEN w
    ELSE [w EXCEPT !.messages = <<>>, !.total_tokens = 0,
                   !.message_count = 0]

get_message_type_string(type) ==
    CASE type = "MESSAGE_USER" -> "User"
      [] type = "MESSAGE_ASSISTANT" -> "Assistant"
      [] type = "MESSAGE_SYSTEM" -> "System"
      [] type = "MESSAGE_TOOL" -> "Tool"
      [] OTHER -> "Unknown"

\* The text is a sequence of pieces: a type name, ": ", the characters of
\* the content and a newline for each message.
RECURSIVE context_lines(_)
context_lines(messages) ==
    IF messages = <<>> THEN <<>>
    ELSE <<get_message_type_string(Head(messages).type), ": ">>
             \o Head(messages).content.chars \o <<"\n">>
             \o context_lines(Tail(messages))

\* get_context as it would be if it walked the list from the tail.
context_window_get_context_newest_first(w, alloc) ==
    IF w = NULL THEN (IF alloc THEN CString(<<>>) ELSE NULL)
    ELSE IF w.messages = <<>> THEN (IF alloc THEN CString(<<>>) ELSE NULL)
    ELSE IF ~alloc THEN NULL
    ELSE CString(context_lines([i \in 1..Len(w.messages) |->
                                   w.messages[Len(w.messages) + 1 - i]]))

\* get_context as it would be if it answered a NULL window with NULL.
context_window_get_context_strict(w, alloc) ==
    IF w = NULL THEN NULL
    ELSE IF ~alloc THEN NULL
    ELSE CString(context_lines(w.messages))

context_window_get_context(w, alloc) ==
    IF w = NULL THEN (IF alloc THEN CString(<<>>) ELSE NULL)
    ELSE IF w.messages = <<>> THEN (IF alloc THEN CString(<<>>) ELSE NULL)
    ELSE IF ~alloc THEN NULL
    ELSE CString(context_lines(w.messages))

context_window_get_message_count(w) ==
    IF w # NULL THEN w.message_count ELSE 0

context_window_get_token_count(w) ==
    IF w # NULL THEN w.total_tokens ELSE 0

\* apply_config as it would be if a lowered limit evicted nothing.
context_window_apply_config_keeping(w, config) ==
    IF w = NULL \/ config = NULL THEN [w |-> w, r |-> "CW_ERROR_NULL_PTR"]
    ELSE IF ~context_config_validate(config)
    THEN [w |-> w, r |-> "CW_ERROR_INVALID_PARAM"]
    ELSE [w |-> [w EXCEPT !.config = config,
                          !.max_tokens = IF config.max_tokens < @
                                         THEN config.max_tokens ELSE @],
          r |-> "CW_SUCCESS"]

context_window_apply_config(w, config) ==
    IF w = NULL \/ config = NULL THEN [w |-> w, r |-> "CW_ERROR_NULL_PTR"]
    ELSE IF ~context_config_validate(config)
    THEN [w |-> w, r |-> "CW_ERROR_INVALID_PARAM"]
    ELSE LET w1 == [w EXCEPT !.config = config]
         IN  IF config.max_tokens < w1.max_tokens
             THEN LET w2 == [w1 EXCEPT !.max_tokens = config.max_tokens]
                      w3 == IF w2.config.auto_compress
                            THEN compress_old_messages(w2).w ELSE w2
                  IN  [w |-> evict_head(w3, 0), r |-> "CW_SUCCESS"]
             ELSE [w |-> w1, r |-> "CW_SUCCESS"]

-----------------------------------------------------------------------------
(* A client of the context window: it calls the operations in any order,  *)
(* on the window it created or on a NULL pointer.  `call` records the     *)
(* call made last, with its arguments and what it returned.               *)

MaxWindow == 3
MaxMessages == 3

Content(n, c) == CString([i \in 1..n |-> c])

MessageInput ==
    { [type |-> "MESSAGE_USER", priority |-> "PRIORITY_NORMAL",
       content |-> Content(1, "a")],
      [type |-> "MESSAGE_ASSISTANT", priority |-> "PRIORITY_LOW",
       content |-> Content(2, "a")],
      [type |-> "MESSAGE_SYSTEM", priority |-> "PRIORITY_CRITICAL",
       content |-> Content(1, "a")],
      [type |-> "MESSAGE_TOOL", priority |-> "PRIORITY_HIGH",
       content |-> Content(0, "a")],
      [type |-> "MESSAGE_USER", priority |-> "PRIORITY_NORMAL",
       content |-> Content(4 * MaxWindow + 1, "a")],
      [type |-> "MESSAGE_USER", priority |-> "PRIORITY_NORMAL",
       content |-> NULL] }

ContentInput == { m.content : m \in MessageInput }

Config(max_tokens, token_ratio, auto_compress, compression) ==
    [context_config_default EXCEPT !.max_tokens = max_tokens,
                                   !.token_ratio = token_ratio,
                                   !.auto_compress = auto_compress,
                                   !.compression = compression]

ConfigInput ==
    { Config(1, 1, TRUE, "COMPRESSION_LOW_PRIORITY"),
      Config(2, DEFAULT_TOKEN_RATIO, FALSE, "COMPRESSION_NONE"),
      Config(MaxWindow, 1, TRUE, "COMPRESSION_NONE"),
      Config(0, 1, TRUE, "COMPRESSION_LOW_PRIORITY"),
      Config(1, 0, TRUE, "COMPRESSION_LOW_PRIORITY"),
      NULL }

\* The limits a client asks for: none, too small, small ones, the largest
\* one allowed and one more.
CreateInput ==
    {-1, 0} \cup 1..MaxWindow \cup {MAX_MAX_TOKENS, MAX_MAX_TOKENS + 1}

\* The pointers a client can pass: its window, or NULL.
WindowArg == {window, NULL}

\* A call was made on the pointer w and left the pointee as `after`.
WindowCall(made, w, after) ==
    /\ window' = IF w = NULL THEN window ELSE after
    /\ call' = made
    /\ UNCHANGED <<parser, stack, ret, ast, main, sched>>

call_context_window_create ==
    /\ window = NULL
    /\ \E max_tokens \in CreateInput, alloc \in BOOLEAN :
           LET created == context_window_create(max_tokens, alloc)
           IN  /\ window' = created
               /\ call' = [op |-> "context_window_create",
                           max_tokens |-> max_tokens, alloc |-> alloc,
                           returned |-> created # NULL]
               /\ UNCHANGED <<parser, stack, ret, ast, main, sched>>

call_context_window_destroy ==
    /\ window # NULL
    /\ window' = NULL
    /\ call' = [op |-> "context_window_destroy"]
    /\ UNCHANGED <<parser, stack, ret, ast, main, sched>>

call_context_window_add_message_ex ==
    \E w \in WindowArg, m \in MessageInput, alloc \in BOOLEAN :
        /\ w # NULL => w.message_count < MaxMessages
        /\ LET c == context_window_add_message_ex(w, m.type, m.priority,
                                                  m.content, alloc)
           IN  WindowCall([op |-> "context_window_add_message_ex",
                           null_window |-> w = NULL, message |-> m,
                           alloc |-> alloc, returned |-> c.r,
                           result |-> c.result], w, c.w)

call_context_window_remove_message ==
    \E w \in WindowArg, content \in ContentInput :
        LET c == context_window_remove_message(w, content)
        IN  WindowCall([op |-> "context_window_remove_message",
                        null_window |-> w = NULL, content |-> content,
                        returned |-> c.r], w, c.w)

call_context_window_clear ==
    \E w \in WindowArg :
        WindowCall([op |-> "context_window_clear", null_window |-> w = NULL],
                   w, context_window_clear(w))

call_context_window_apply_config ==
    \E w \in WindowArg, config \in ConfigInput :
        LET c == context_window_apply_config(w, config)
        IN  WindowCall([op |-> "context_window_apply_config",
                        null_window |-> w = NULL, config |-> config,
                        returned |-> c.r], w, c.w)

call_context_window_get_context ==
    \E w \in WindowArg, alloc \in BOOLEAN :
        WindowCall([op |-> "context_window_get_context",
                    null_window |-> w = NULL, alloc |-> alloc,
                    returned |-> context_window_get_context(w, alloc)],
                   w, w)

call_context_window_get_message_count ==
    \E w \in WindowArg :
        WindowCall([op |-> "context_window_get_message_count",
                    null_window |-> w = NULL,
                    returned |-> context_window_get_message_count(w)], w, w)

call_context_window_get_token_count ==
    \E w \in WindowArg :
        WindowCall([op |-> "context_window_get_token_count",
                    null_window |-> w = NULL,
                    returned |-> context_window_get_token_count(w)], w, w)

InitWindow ==
    /\ parser = parser_create(Lexer(<<>>))
    /\ stack = <<>>
    /\ ret = NULL
    /\ ast = PENDING
    /\ call = NoCall
    /\ main = main_at_parse(FALSE)
    /\ window = NULL
    /\ sched = OneThread

NextWindow ==
    \/ call_context_window_create
    \/ call_context_window_destroy
    \/ call_context_window_add_message_ex
    \/ call_context_window_remove_message
    \/ call_context_window_clear
    \/ call_context_window_apply_config
    \/ call_context_window_get_context
    \/ call_context_window_get_message_count
    \/ call_context_window_get_token_count

SpecWindow == InitWindow /\ [][NextWindow]_vars

\* C18: after any sequence of create, add_message, remove_message, clear
\* and apply_config, the token total of the window never exceeds its
\* current max_tokens.
C18_WithinCapacity ==
    window # NULL => window.total_tokens <= window.max_tokens

\* A full window whose limit apply_config has just lowered.
C18_Witness ==
    /\ window # NULL
    /\ call.op = "context_window_apply_config"
    /\ ~call.null_window
    /\ call.returned = "CW_SUCCESS"
    /\ window.max_tokens < MaxWindow
    /\ window.total_tokens = window.max_tokens
    /\ window.message_count > 1

\* The call made by this step adds, to the client's window, a message whose
\* estimated token count is greater than the window's max_tokens.
AddsOversize ==
    /\ call'.op = "context_window_add_message_ex"
    /\ ~call'.null_window
    /\ call'.message.content # NULL
    /\ calculate_token_count_ex(call'.message.content,
                                window.config.token_ratio) > window.max_tokens

\* C19 as stated: adding a message whose estimated token count is greater
\* than max_tokens returns false with result CW_ERROR_FULL and leaves the
\* window unchanged.
C19_OversizeAsClaimed ==
    [][AddsOversize => /\ call'.returned = FALSE
                       /\ call'.result = "CW_ERROR_FULL"
                       /\ window' = window]_vars

\* C19: adding a message whose estimated token count is greater than
\* max_tokens returns false and leaves the window unchanged (no message is
\* evicted; list, count and total are as before); the result is
\* CW_ERROR_FULL when the message could be allocated and
\* CW_ERROR_NO_MEMORY when it could not.
C19_OversizeRejected ==
    [][AddsOversize => /\ call'.returned = FALSE
                       /\ call'.result = IF call'.alloc THEN "CW_ERROR_FULL"
                                         ELSE "CW_ERROR_NO_MEMORY"
                       /\ window' = window]_vars

\* A full window that holds messages has just refused an oversize message.
C19_Witness ==
    /\ window # NULL
    /\ call.op = "context_window_add_message_ex"
    /\ ~call.null_window
    /\ call.result = "CW_ERROR_FULL"
    /\ window.message_count > 1
    /\ window.total_tokens = window.max_tokens

\* The call made by this step passes add_message a NULL window or a NULL
\* content.
AddsNull ==
    /\ call'.op = "context_window_add_message_ex"
    /\ call'.null_window \/ call'.message.content = NULL

\* The call made by this step asks a NULL window for a count.
CountsNull ==
    /\ call'.op \in {"context_window_get_message_count",
                     "context_window_get_token_count"}
    /\ call'.null_window

\* The call made by this step asks a NULL window or an empty window for its
\* context.
GetsEmptyContext ==
    /\ call'.op = "context_window_get_context"
    /\ call'.null_window \/ window.messages = <<>>

\* C20 as stated: add_message with a NULL window or NULL content returns
\* false (CW_ERROR_NULL_PTR) and changes no window; the counts of a NULL
\* window are 0; get_context of a NULL or empty window returns an empty
\* string.
C20_NullsAsClaimed ==
    [][/\ AddsNull => /\ call'.returned = FALSE
                      /\ call'.result = "CW_ERROR_NULL_PTR"
                      /\ window' = window
       /\ CountsNull => call'.returned = 0 /\ window' = window
       /\ GetsEmptyContext => /\ call'.returned = CString(<<>>)
                              /\ window' = window]_vars

\* C20: add_message with a NULL window or NULL content returns false
\* (CW_ERROR_NULL_PTR) and changes no window; the counts of a NULL window
\* are 0; get_context of a NULL or empty window changes no window and
\* returns an empty string when its one-byte allocation succeeds, NULL
\* when it fails.
C20_NullsRejected ==
    [][/\ AddsNull => /\ call'.returned = FALSE
                      /\ call'.result = "CW_ERROR_NULL_PTR"
                      /\ window' = window
       /\ CountsNull => call'.returned = 0 /\ window' = window
       /\ GetsEmptyContext =>
              /\ call'.returned = IF call'.alloc THEN CString(<<>>) ELSE NULL
              /\ window' = window]_vars

\* The client holds a window with messages and has just been given an
\* empty string for the context of a NULL window.
C20_Witness ==
    /\ window # NULL
    /\ window.message_count > 0
    /\ call.op = "context_window_get_context"
    /\ call.null_window
    /\ call.returned = CString(<<>>)

\* C21: context_window_create(max_tokens) returns NULL when max_tokens < 1
\* or max_tokens > INT32_MAX / 2, and otherwise, when no allocation fails,
\* a window with message count 0, token count 0 and max_tokens equal to
\* the argument.
C21_CreateChecksLimit ==
    call.op = "context_window_create" =>
        IF call.max_tokens < 1 \/ call.max_tokens > MAX_MAX_TOKENS
        THEN window = NULL /\ ~call.returned
        ELSE call.alloc =>
                 /\ call.returned
                 /\ window # NULL
                 /\ context_window_get_message_count(window) = 0
                 /\ context_window_get_token_count(window) = 0
                 /\ window.messages = <<>>
                 /\ window.max_tokens = call.max_tokens

\* The largest limit allowed has just been accepted.
C21_Witness ==
    /\ call.op = "context_window_create"
    /\ call.max_tokens = MAX_MAX_TOKENS
    /\ call.alloc
    /\ window # NULL

-----------------------------------------------------------------------------
(* The token estimate as a function: a client calls it on texts of every  *)
(* length, short ones and ones beyond the range of int, with every ratio. *)

MaxText == 9
MaxRatio == 8

TextInput ==
    {NULL} \cup { Content(n, "a") : n \in 0..MaxText }
           \cup { LongText(hi, lo) : hi \in {2 ^ 15 - 1, 2 ^ 15, 2 ^ 16, 2 ^ 17},
                                     lo \in {0, 1, Limb - 1} }

RatioInput == -1..MaxRatio

call_calculate_token_count_ex ==
    \E text \in TextInput, ratio \in RatioInput :
        /\ call' = [op |-> "calculate_token_count_ex", text |-> text,
                    ratio |-> ratio,
                    returned |-> calculate_token_count_ex(text, ratio)]
        /\ UNCHANGED <<parser, stack, ret, ast, main, window, sched>>

call_calculate_token_count ==
    \E text \in TextInput :
        /\ call' = [op |-> "calculate_token_count", text |-> text,
                    ratio |-> DEFAULT_TOKEN_RATIO,
                    returned |-> calculate_token_count(text)]
        /\ UNCHANGED <<parser, stack, ret, ast, main, window, sched>>

NextTokens ==
    \/ call_calculate_token_count_ex
    \/ call_calculate_token_count

SpecTokens == InitWindow /\ [][NextTokens]_vars

\* r is the ceiling of n / d, for a length n and a ratio d > 0.
IsCeiling(r, n, d) ==
    LET floor == size_div(n, d)
        exact == ((n.hi % d) * Limb + n.lo) % d = 0
        ceiling == IF exact THEN floor ELSE size_add(floor, 1)
    IN  /\ r >= 0
        /\ r \div Limb = ceiling.hi
        /\ r % Limb = ceiling.lo

\* C22: calculate_token_count_ex(text, ratio) returns ceil(length(text) /
\* ratio) for every text and every ratio > 0, and 0 when text is NULL or
\* ratio <= 0; calculate_token_count uses ratio 4.
C22_CeilingOfLength ==
    call.op \in {"calculate_token_count_ex", "calculate_token_count"} =>
        /\ call.op = "calculate_token_count" =>
               call.ratio = 4
        /\ IF call.text = NULL \/ call.ratio <= 0
           THEN call.returned = 0
           ELSE IsCeiling(call.returned, strlen(call.text), call.ratio)

-----------------------------------------------------------------------------
(* Eviction order *)

\* The value of a priority in enum MessagePriority.
PriorityRank(priority) ==
    CASE priority = "PRIORITY_LOW" -> 0
      [] priority = "PRIORITY_NORMAL" -> 1
      [] priority = "PRIORITY_HIGH" -> 2
      [] priority = "PRIORITY_CRITICAL" -> 3

Priority ==
    {"PRIORITY_LOW", "PRIORITY_NORMAL", "PRIORITY_HIGH", "PRIORITY_CRITICAL"}

\* How many of the messages have the given priority.
CountOf(messages, priority) ==
    Cardinality({i \in 1..Len(messages) : messages[i].priority = priority})

\* The window has the configuration context_window_create gives it.
DefaultConfigured(w) ==
    w.config = [context_config_default EXCEPT !.max_tokens = w.max_tokens]

\* The call made by this step adds a message to the client's window, which
\* has the default configuration.
AddsToDefault ==
    /\ call'.op = "context_window_add_message_ex"
    /\ ~call'.null_window
    /\ call'.returned
    /\ DefaultConfigured(window)

\* C23: eviction follows priority: when adding a message to a window with
\* the default configuration forces eviction, no message is evicted while
\* a message of strictly lower priority remains in the window, so a
\* CRITICAL message is evicted only when every other remaining message is
\* CRITICAL.
C23_EvictionByPriority ==
    [][AddsToDefault =>
          LET kept == SubSeq(window'.messages, 1, Len(window'.messages) - 1)
          IN  \A p \in Priority, q \in Priority :
                  (/\ PriorityRank(q) < PriorityRank(p)
                   /\ CountOf(kept, p) < CountOf(window.messages, p))
                      => CountOf(kept, q) = 0]_vars

-----------------------------------------------------------------------------
(* The context string *)

TypeName ==
    [MESSAGE_USER |-> "User", MESSAGE_ASSISTANT |-> "Assistant",
     MESSAGE_SYSTEM |-> "System", MESSAGE_TOOL |-> "Tool"]

\* The line of one message: its type name, ": ", its content, a newline.
LineOf(message) ==
    <<TypeName[message.type], ": ">> \o message.content.chars \o <<"\n">>

\* The lines of the first n messages, oldest first.
RECURSIVE LinesOf(_, _)
LinesOf(messages, n) ==
    IF n = 0 THEN <<>>
    ELSE LinesOf(messages, n - 1) \o LineOf(messages[n])

\* The call made by this step asks the client's window for its context.
GetsContext ==
    /\ call'.op = "context_window_get_context"
    /\ ~call'.null_window

\* C24 as stated: get_context returns the concatenation, oldest to newest,
\* of one line for every message in the window, and changes neither the
\* message list nor the token total.
C24_ContextAsClaimed ==
    [][GetsContext =>
          /\ call'.returned = CString(LinesOf(window.messages,
                                              Len(window.messages)))
          /\ window' = window]_vars

\* C24: get_context changes neither the message list nor the token total,
\* and returns the concatenation, oldest to newest, of one line
\* "Type: content" with a newline for every message in the window and for
\* no other message, when its buffer can be allocated; NULL when not.
C24_ContextLines ==
    [][GetsContext =>
          /\ call'.returned =
                 IF call'.alloc
                 THEN CString(LinesOf(window.messages, Len(window.messages)))
                 ELSE NULL
          /\ window' = window]_vars

\* The context of a window with messages of different types was returned.
C24_Witness ==
    /\ call.op = "context_window_get_context"
    /\ ~call.null_window
    /\ call.returned # NULL
    /\ window # NULL
    /\ window.message_count > 1
    /\ window.messages[1].type # window.messages[2].type

-----------------------------------------------------------------------------
(* Adding *)

\* The call made by this step adds a message with a content to the
\* client's window, and the message can be allocated.
AddsMessage ==
    /\ call'.op = "context_window_add_message_ex"
    /\ ~call'.null_window
    /\ call'.message.content # NULL
    /\ call'.alloc

\* C25: for a non-null window and content, and no allocation failure,
\* add_message returns true exactly when the estimated token count of the
\* message is at most max_tokens; after a successful add the new message
\* is the last message of the window and the message count is at least 1.
C25_AddSucceedsIffFits ==
    [][AddsMessage =>
          LET m == call'.message
              tokens == calculate_token_count_ex(m.content,
                                                 window.config.token_ratio)
          IN  /\ call'.returned <=> tokens <= window.max_tokens
              /\ call'.returned =>
                     /\ window'.message_count >= 1
                     /\ window'.message_count = Len(window'.messages)
                     /\ window'.messages[Len(window'.messages)] =
                            [type |-> m.type, priority |-> m.priority,
                             content |-> m.content, token_count |-> tokens]
                     /\ call'.result = "CW_SUCCESS"]_vars

\* A message that fits exactly has just been added to a window that held
\* others.
C25_Witness ==
    /\ call.op = "context_window_add_message_ex"
    /\ ~call.null_window
    /\ call.returned
    /\ window # NULL
    /\ window.message_count > 1
    /\ window.messages[Len(window.messages)].token_count = window.max_tokens

-----------------------------------------------------------------------------
(* Operators of expression nodes *)

\* The node records the operator token that stands at index i: its kind as
\* the operator and its position as the position.
RecordsToken(node, i) ==
    /\ parser.lexer[i].position = node.position
    /\ parser.lexer[i].type = node.op

\* The token at index i stands after the node `before` and ahead of the
\* node `after` (a missing operand sets no limit).
Between(before, i, after) ==
    /\ before # NULL => before.position.column < i
    /\ after # NULL => i < after.position.column

\* Every BinaryExpr and UnaryExpr of the tree records the operator token
\* between, or ahead of, its operands.
RECURSIVE OperatorsRecorded(_)
OperatorsRecorded(node) ==
    IF node.type = "AST_BINARY_EXPR"
    THEN /\ \E i \in 1..Len(parser.lexer) :
               RecordsToken(node, i) /\ Between(node.left, i, node.right)
         /\ OperatorsRecorded(node.left)
         /\ OperatorsRecorded(node.right)
    ELSE IF node.type = "AST_UNARY_EXPR"
    THEN /\ \E i \in 1..Len(parser.lexer) :
               RecordsToken(node, i) /\ Between(NULL, i, node.operand)
         /\ OperatorsRecorded(node.operand)
    ELSE TRUE

\* C26: every BinaryExpr and UnaryExpr node built by the parser records as
\* its operator the kind of the operator token consumed between (or before)
\* its operands, and as its position the position of that token.
C26_OperatorsRecorded == OperatorsRecorded(ret)

-----------------------------------------------------------------------------
(* Grouping *)

\* var x = - x ^ not y ;
UnaryPower == <<VAR, X, ASSIGN, SUB, X, POW, NOT, Y, SEMICOLON>>

\* C27: every binary level other than Power groups to the left: `1 op1 2
\* op2 3` with both operators of one level gives a binary node over 1 and
\* 2 as the left child of the root and 3 as its right child; Unary binds
\* tighter than Power, so `- x ^ ..` has the unary node over x as the left
\* child of the power node.
C27_GroupsLeft ==
    Parsed =>
        /\ (/\ Input \in TwoOperators
            /\ Level(Input[5]) = Level(Input[7])
            /\ Input[5] # POW) =>
               /\ Len(ast.statements) = 1
               /\ Initializer.type = "AST_BINARY_EXPR"
               /\ Initializer.left.type = "AST_BINARY_EXPR"
               /\ IsNumber(Initializer.left.left, 1)
               /\ IsNumber(Initializer.left.right, 2)
               /\ IsNumber(Initializer.right, 3)
        /\ Input = UnaryPower =>
               /\ Len(ast.statements) = 1
               /\ Initializer.type = "AST_BINARY_EXPR"
               /\ Initializer.op = "TOKEN_POW"
               /\ Initializer.left.type = "AST_UNARY_EXPR"
               /\ Initializer.left.operand.type = "AST_IDENTIFIER"
               /\ Initializer.left.operand.name = <<"x">>
               /\ Initializer.right.type = "AST_UNARY_EXPR"

\* `1 - 2 - 3` has been parsed.
C27_Witness ==
    /\ Parsed
    /\ Input = <<VAR, X, ASSIGN, Num(1), SUB, Num(2), SUB, Num(3), SEMICOLON>>
    /\ Initializer.left.type = "AST_BINARY_EXPR"

-----------------------------------------------------------------------------
(* Progress of the statement loop *)

\* C28: every completed iteration of the statement loop of parse_program
\* strictly advances the cursor (it began on a token ahead of end of input
\* and ends beyond it), and the cursor never decreases, so the loop runs
\* at most as many iterations as there are tokens.
C28_StatementLoopAdvances ==
    /\ []((At("parse_program", "loop") /\ Top.iter_start # <<>>) =>
             /\ Top.iter_start[1] < Len(parser.lexer) - 1
             /\ parser.current > Top.iter_start[1])
    /\ [][parser'.current >= parser.current]_vars

\* An iteration whose statement failed on its first token is over, and
\* another one that parsed a statement.
C28_Witness ==
    /\ At("parse_program", "loop")
    /\ Top.iter_start # <<>>
    /\ Top.iter_start[1] > 0
    /\ Len(Top.statements) = 1
    /\ parser.errors # <<>>
    /\ parser.errors[1].message = "Expected statement"

-----------------------------------------------------------------------------
(* Output formats *)

\* C29: an OUTPUT statement whose format name is missing or is not one of
\* JSON, TEXT, MARKDOWN records at least one ParseError: whenever parsing
\* records zero errors, every OutputSpec node of the Program has a format
\* in {JSON, TEXT, MARKDOWN} (1, 2, 3).
C29_OutputFormatKnown ==
    (Parsed /\ ast # NULL /\ parser.errors = <<>>) =>
        \A i \in 1..Len(ast.statements) :
            ast.statements[i].type = "AST_OUTPUT_SPEC" =>
                ast.statements[i].format \in {1, 2, 3}

-----------------------------------------------------------------------------
(* Number of diagnostics *)

\* A statement with exactly one of its required tokens removed, followed
\* by a well-formed declaration.
OneTokenRemoved ==
    { m \o GoodVarDecl :
          m \in MalformedStatement \ {<<SEMICOLON>>, <<X>>, <<RBRACE>>} }

\* C30: for a token sequence obtained from a well-formed program by
\* removing exactly one required token (such as the initializer of
\* `var x = ;`), parser_parse records at most one ParseError.
C30_OneErrorPerRemovedToken ==
    (Parsed /\ Input \in OneTokenRemoved) => Len(parser.errors) <= 1

-----------------------------------------------------------------------------
(* The context window as the struct of context_window.h: the messages are *)
(* nodes at addresses of the heap, linked by next and prev, and the       *)
(* window holds head, tail, the counters and the metrics block.  The      *)
(* operations are the ones above, written on the pointers.  Of the        *)
(* metrics, peak_utilization and total_time, which the operations write   *)
(* and never read, are left out.                                          *)

MaxHeld == 3

\* A Message*: NULL, or the address of a node.
Ptr(at) == [type |-> "POINTER", at |-> at]

\* The addresses of the heap that hold a node; the others hold NULL.
Allocated(w) == {a \in DOMAIN w.heap : w.heap[a] # NULL}

\* malloc(sizeof(Message)): an address that holds no node.
malloc_message(w) ==
    Ptr(CHOOSE a \in DOMAIN w.heap \ Allocated(w) :
            \A b \in DOMAIN w.heap \ Allocated(w) : a <= b)

\* free(msg), after free(msg->content).
free_message(w, msg) ==
    [w EXCEPT !.heap[msg.at] = NULL]

init_metrics(w, alloc) ==
    IF w = NULL \/ ~w.config.enable_metrics THEN w
    ELSE [w EXCEPT !.metrics =
              IF alloc
              THEN [messages_added |-> 0, messages_evicted |-> 0,
                    tokens_added |-> 0, tokens_evicted |-> 0,
                    compressions |-> 0, context_retrievals |-> 0]
              ELSE NULL]

update_metrics_on_add(w, tokens) ==
    IF w = NULL THEN w
    ELSE IF w.metrics = NULL THEN w
    ELSE [w EXCEPT !.metrics.messages_added = @ + 1,
                   !.metrics.tokens_added = @ + tokens]

update_metrics_on_evict(w, tokens) ==
    IF w = NULL THEN w
    ELSE IF w.metrics = NULL THEN w
    ELSE [w EXCEPT !.metrics.messages_evicted = @ + 1,
                   !.metrics.tokens_evicted = @ + tokens]

\* create_message, with the node placed on the heap of w.
create_node(w, type, priority, content, token_ratio, alloc) ==
    LET msg == create_message(type, priority, content, token_ratio, alloc)
        at == malloc_message(w)
    IN  IF msg = NULL THEN [w |-> w, msg |-> NULL]
        ELSE [w |-> [w EXCEPT !.heap[at.at] =
                        [type |-> msg.type, priority |-> msg.priority,
                         content |-> msg.content,
                         token_count |-> msg.token_count,
                         next |-> NULL, prev |-> NULL]],
              msg |-> at]

\* msg->prev->next = next, or window->head = next where there is no prev.
set_next(w, prev, next) ==
    IF prev # NULL THEN [w EXCEPT !.heap[prev.at].next = next]
    ELSE [w EXCEPT !.head = next]

\* msg->next->prev = prev, or window->tail = prev where there is no next.
set_prev(w, next, prev) ==
    IF next # NULL THEN [w EXCEPT !.heap[next.at].prev = prev]
    ELSE [w EXCEPT !.tail = prev]

\* remove_message as it would be if it left message_count alone.
unlink_message_uncounted(w, msg) ==
    IF w = NULL \/ msg = NULL THEN w
    ELSE LET m == w.heap[msg.at]
         IN  free_message(
                 set_prev(
                     set_next(
                         [update_metrics_on_evict(w, m.token_count)
                             EXCEPT !.total_tokens = @ - m.token_count],
                         m.prev, m.next),
                     m.next, m.prev),
                 msg)

\* remove_message on the pointers: the metrics, the counters, the
\* neighbours (or head and tail), then the node is freed.
unlink_message(w, msg) ==
    IF w = NULL \/ msg = NULL THEN w
    ELSE LET m == w.heap[msg.at]
         IN  free_message(
                 set_prev(
                     set_next(
                         [update_metrics_on_evict(w, m.token_count)
                             EXCEPT !.total_tokens = @ - m.token_count,
                                    !.message_count = @ - 1],
                         m.prev, m.next),
                     m.next, m.prev),
                 msg)

\* window->metrics->compressions++, where there are metrics.
count_compression(w) ==
    IF w.metrics # NULL THEN [w EXCEPT !.metrics.compressions = @ + 1]
    ELSE w

\* One loop of compress_old_messages on the pointers.
RECURSIVE compress_loop(_, _, _)
compress_loop(w, priority, current) ==
    IF current # NULL /\ w.total_tokens > w.max_tokens
    THEN compress_loop(
             IF w.heap[current.at].priority = priority
             THEN count_compression(unlink_message(w, current))
             ELSE w,
             priority, w.heap[current.at].next)
    ELSE w

\* A later phase of compress_old_messages: its loop, if still over limit.
compress_if_over(w, priority) ==
    IF w.total_tokens > w.max_tokens
    THEN compress_loop(w, priority, w.head)
    ELSE w

\* compress_old_messages as it would be if it removed nothing.
compress_list_idle(w) == w

\* compress_old_messages on the pointers.
compress_list(w) ==
    IF w = NULL THEN w
    ELSE IF w.config.compression = "COMPRESSION_NONE" THEN w
    ELSE compress_if_over(
             compress_if_over(
                 compress_loop(w, "PRIORITY_LOW", w.head),
                 "PRIORITY_NORMAL"),
             "PRIORITY_HIGH")

\* if (window->config.auto_compress) compress_old_messages(window).
compress_if_auto(w) ==
    IF w.config.auto_compress THEN compress_list(w) ELSE w

\* The forced eviction loop on the pointers.
RECURSIVE unlink_head(_, _)
unlink_head(w, incoming) ==
    IF w.head # NULL /\ w.total_tokens + incoming > w.max_tokens
    THEN unlink_head(unlink_message(w, w.head), incoming)
    ELSE w

\* context_window_create_with_config on the pointers; alloc tells which of
\* the window and the metrics block can be allocated.  The heap has room
\* for the messages of the list and the one being added.
struct_create_with_config(config, alloc) ==
    IF config = NULL THEN NULL
    ELSE IF ~context_config_validate(config) THEN NULL
    ELSE IF ~alloc.window THEN NULL
    ELSE init_metrics([head |-> NULL, tail |-> NULL, total_tokens |-> 0,
                       max_tokens |-> config.max_tokens,
                       message_count |-> 0, config |-> config,
                       metrics |-> NULL, mutex |-> NULL,
                       heap |-> [a \in 1..(MaxHeld + 1) |-> NULL]],
                      alloc.metrics)

\* add_message_ex, the handling of overflow: compression, then eviction.
make_room(w, tokens) ==
    IF w.total_tokens + tokens > w.max_tokens
    THEN unlink_head(compress_if_auto(w), tokens)
    ELSE w

\* add_message_ex, the linking of the message at the tail.
link_at_tail(w, msg) ==
    IF w.tail = NULL THEN [w EXCEPT !.head = msg, !.tail = msg]
    ELSE [w EXCEPT !.heap[w.tail.at].next = msg,
                   !.heap[msg.at].prev = w.tail,
                   !.tail = msg]

\* add_message_ex from the check of the created message to its linking.
link_created(made) ==
    IF made.msg = NULL
    THEN [w |-> made.w, msg |-> NULL, result |-> "CW_ERROR_NO_MEMORY"]
    ELSE IF made.w.heap[made.msg.at].token_count > made.w.max_tokens
    THEN [w |-> free_message(made.w, made.msg), msg |-> NULL,
          result |-> "CW_ERROR_FULL"]
    ELSE [w |-> link_at_tail(
                    make_room(made.w,
                              made.w.heap[made.msg.at].token_count),
                    made.msg),
          msg |-> made.msg, result |-> "CW_SUCCESS"]

\* context_window_add_message_ex on the pointers, as far as the message is
\* linked at the tail: the checks, the eviction and the linking.
struct_link_message(w, type, priority, content, alloc) ==
    IF w = NULL \/ content = NULL
    THEN [w |-> w, msg |-> NULL, result |-> "CW_ERROR_NULL_PTR"]
    ELSE link_created(create_node(w, type, priority, content,
                                  w.config.token_ratio, alloc))

\* add_message_ex after the linking: the counters and the metrics.
count_message(w, tokens) ==
    update_metrics_on_add([w EXCEPT !.total_tokens = @ + tokens,
                                    !.message_count = @ + 1], tokens)

\* add_message_ex, what it returns for a message linked or not.
add_linked(linked) ==
    IF linked.msg = NULL
    THEN [w |-> linked.w, r |-> FALSE, result |-> linked.result]
    ELSE [w |-> count_message(linked.w,
                              linked.w.heap[linked.msg.at].token_count),
          r |-> TRUE, result |-> "CW_SUCCESS"]

\* context_window_add_message_ex on the pointers: the message is linked,
\* then counted.
struct_add_message_ex(w, type, priority, content, alloc) ==
    add_linked(struct_link_message(w, type, priority, content, alloc))

\* The loop of context_window_remove_message on the pointers.
RECURSIVE find_content(_, _, _)
find_content(w, current, content) ==
    IF current = NULL THEN NULL
    ELSE IF w.heap[current.at].content.chars = content.chars THEN current
    ELSE find_content(w, w.heap[current.at].next, content)

struct_remove_message(w, content) ==
    IF w = NULL \/ content = NULL THEN [w |-> w, r |-> FALSE]
    ELSE LET current == find_content(w, w.head, content)
         IN  IF current = NULL THEN [w |-> w, r |-> FALSE]
             ELSE [w |-> unlink_message(w, current), r |-> TRUE]

\* The loop of context_window_clear: free the nodes from current on.
RECURSIVE free_list(_, _)
free_list(w, current) ==
    IF current = NULL THEN w
    ELSE free_list(free_message(w, current), w.heap[current.at].next)

struct_clear(w) ==
    IF w = NULL THEN w
    ELSE [free_list(w, w.head) EXCEPT !.head = NULL, !.tail = NULL,
                                      !.total_tokens = 0,
                                      !.message_count = 0]

\* context_window_apply_config on the pointers.
struct_apply_config(w, config) ==
    IF w = NULL \/ config = NULL THEN [w |-> w, r |-> "CW_ERROR_NULL_PTR"]
    ELSE IF ~context_config_validate(config)
    THEN [w |-> w, r |-> "CW_ERROR_INVALID_PARAM"]
    ELSE IF config.max_tokens < w.max_tokens
    THEN [w |-> unlink_head(
                    compress_if_auto(
                        [w EXCEPT !.config = config,
                                  !.max_tokens = config.max_tokens]),
                    0),
          r |-> "CW_SUCCESS"]
    ELSE [w |-> [w EXCEPT !.config = config], r |-> "CW_SUCCESS"]

context_window_get_max_tokens(w) ==
    IF w # NULL THEN w.max_tokens ELSE 0

-----------------------------------------------------------------------------
(* A client of the struct: it creates a window from a configuration and   *)
(* calls the operations that change the list, in any order.  `call`       *)
(* records the operation called last and what it returned.                *)

NodeInput ==
    { [type |-> "MESSAGE_USER", priority |-> "PRIORITY_NORMAL",
       content |-> Content(1, "a")],
      [type |-> "MESSAGE_ASSISTANT", priority |-> "PRIORITY_LOW",
       content |-> Content(2, "a")],
      [type |-> "MESSAGE_SYSTEM", priority |-> "PRIORITY_CRITICAL",
       content |-> Content(1, "a")],
      [type |-> "MESSAGE_TOOL", priority |-> "PRIORITY_HIGH",
       content |-> Content(1, "b")],
      [type |-> "MESSAGE_USER", priority |-> "PRIORITY_LOW",
       content |-> Content(0, "a")] }

StructConfigInput ==
    { Config(MaxWindow, 1, TRUE, "COMPRESSION_LOW_PRIORITY"),
      Config(MaxWindow, 1, FALSE, "COMPRESSION_NONE"),
      Config(2, 1, TRUE, "COMPRESSION_AGGRESSIVE"),
      Config(1, 1, TRUE, "COMPRESSION_LOW_PRIORITY") }

StructCall(made, after) ==
    /\ window' = after
    /\ call' = made
    /\ UNCHANGED <<parser, stack, ret, ast, main, sched>>

call_struct_create_with_config ==
    /\ window = NULL
    /\ \E config \in StructConfigInput,
          alloc \in [window : BOOLEAN, metrics : BOOLEAN] :
           LET created == struct_create_with_config(config, alloc)
           IN  StructCall([op |-> "context_window_create_with_config",
                           returned |-> created # NULL], created)

call_struct_destroy ==
    /\ window # NULL
    /\ StructCall([op |-> "context_window_destroy"], NULL)

call_struct_add_message_ex ==
    /\ window # NULL
    /\ window.message_count < MaxHeld
    /\ window.metrics # NULL => window.metrics.messages_added < MaxHeld
    /\ \E m \in NodeInput, alloc \in BOOLEAN :
           LET c == struct_add_message_ex(window, m.type, m.priority,
                                          m.content, alloc)
           IN  StructCall([op |-> "context_window_add_message_ex",
                           returned |-> c.r, result |-> c.result], c.w)

call_struct_remove_message ==
    /\ window # NULL
    /\ \E m \in NodeInput :
           LET c == struct_remove_message(window, m.content)
           IN  StructCall([op |-> "context_window_remove_message",
                           returned |-> c.r], c.w)

call_struct_clear ==
    /\ window # NULL
    /\ StructCall([op |-> "context_window_clear"], struct_clear(window))

call_struct_apply_config ==
    /\ window # NULL
    /\ \E config \in StructConfigInput :
           LET c == struct_apply_config(window, config)
           IN  StructCall([op |-> "context_window_apply_config",
                           returned |-> c.r], c.w)

NextStruct ==
    \/ call_struct_create_with_config
    \/ call_struct_destroy
    \/ call_struct_add_message_ex
    \/ call_struct_remove_message
    \/ call_struct_clear
    \/ call_struct_apply_config

SpecStruct == InitWindow /\ [][NextStruct]_vars

-----------------------------------------------------------------------------
(* Accounting of the list *)

\* The addresses met from `current` along next (or prev), at most `fuel`
\* of them; 0 stands for an address that holds no node.
RECURSIVE Chain(_, _, _, _)
Chain(w, current, field, fuel) ==
    IF current = NULL \/ fuel = 0 THEN <<>>
    ELSE IF current.at \notin Allocated(w) THEN <<0>>
    ELSE <<current.at>>
             \o Chain(w, w.heap[current.at][field], field, fuel - 1)

\* The messages in the list, from head.
ListOf(w) == Chain(w, w.head, "next", MaxHeld + 2)

RECURSIVE SumOfTokens(_, _)
SumOfTokens(w, list) ==
    IF list = <<>> THEN 0
    ELSE w.heap[Head(list)].token_count + SumOfTokens(w, Tail(list))

\* The list is a list: the nodes from head are the nodes of the heap, each
\* once, and the nodes from tail along prev are the same in reverse.
WellLinked(w) ==
    LET list == ListOf(w)
        back == Chain(w, w.tail, "prev", MaxHeld + 2)
    IN  /\ \A i \in 1..Len(list) : list[i] \in Allocated(w)
        /\ \A i, j \in 1..Len(list) : list[i] = list[j] => i = j
        /\ {list[i] : i \in 1..Len(list)} = Allocated(w)
        /\ Len(back) = Len(list)
        /\ \A i \in 1..Len(list) : back[i] = list[Len(list) + 1 - i]

\* The window of the sequence model that the struct stands for.
SequenceOf(w) ==
    IF w = NULL THEN NULL
    ELSE LET list == ListOf(w)
         IN  [messages |-> [i \in 1..Len(list) |->
                               [type |-> w.heap[list[i]].type,
                                priority |-> w.heap[list[i]].priority,
                                content |-> w.heap[list[i]].content,
                                token_count |-> w.heap[list[i]].token_count]],
              total_tokens |-> w.total_tokens,
              message_count |-> w.message_count,
              max_tokens |-> w.max_tokens, config |-> w.config]

\* The operations on the pointers do to the list what the operations on
\* the sequence do to the sequence.
StructRefinesSequence ==
    window # NULL =>
        /\ WellLinked(window)
        /\ \A m \in NodeInput, alloc \in BOOLEAN :
               LET c == struct_add_message_ex(window, m.type, m.priority,
                                              m.content, alloc)
                   d == context_window_add_message_ex(
                            SequenceOf(window), m.type, m.priority,
                            m.content, alloc)
               IN  SequenceOf(c.w) = d.w /\ c.r = d.r /\ c.result = d.result
        /\ \A m \in NodeInput :
               LET c == struct_remove_message(window, m.content)
                   d == context_window_remove_message(SequenceOf(window),
                                                      m.content)
               IN  SequenceOf(c.w) = d.w /\ c.r = d.r
        /\ \A config \in StructConfigInput :
               LET c == struct_apply_config(window, config)
                   d == context_window_apply_config(SequenceOf(window),
                                                    config)
               IN  SequenceOf(c.w) = d.w /\ c.r = d.r
        /\ SequenceOf(struct_clear(window))
               = context_window_clear(SequenceOf(window))

\* The counters of w are those of its list.
Accounted(w) ==
    /\ w.total_tokens = SumOfTokens(w, ListOf(w))
    /\ w.message_count = Len(ListOf(w))
    /\ (w.head = NULL) <=> (w.tail = NULL)
    /\ (w.tail = NULL) <=> (w.message_count = 0)

\* C31: in every reachable state of a window built by create, add_message,
\* remove_message, clear and apply_config, total_tokens is the sum of
\* token_count over the messages of the list, message_count is the number
\* of messages of the list, and head is null exactly when tail is null
\* exactly when message_count is 0.
C31_ListAccounting ==
    window # NULL => Accounted(window)

\* A message was taken out of the middle of a list of three.
C31_Witness ==
    /\ window # NULL
    /\ call.op = "context_window_remove_message"
    /\ call.returned
    /\ window.message_count = 2
    /\ window.total_tokens > 0
    /\ window.heap[window.head.at].next = window.tail
    /\ window.head.at + 1 < window.tail.at

-----------------------------------------------------------------------------
(* Eviction on the add path *)

RECURSIVE SumTokens(_)
SumTokens(messages) ==
    IF messages = <<>> THEN 0
    ELSE Head(messages).token_count + SumTokens(Tail(messages))

\* The messages after the first k.
DropFirst(messages, k) == SubSeq(messages, k + 1, Len(messages))

\* The length of the shortest prefix of the list whose removal lets a
\* message of `tokens` tokens fit under the limit.
ShortestPrefix(messages, max_tokens, tokens) ==
    CHOOSE k \in 0..Len(messages) :
        /\ SumTokens(DropFirst(messages, k)) + tokens <= max_tokens
        /\ \A j \in 0..(k - 1) :
               SumTokens(DropFirst(messages, j)) + tokens > max_tokens

-----------------------------------------------------------------------------
(* Eviction when the limit is lowered *)

\* The nodes of the list that have the given priority, oldest first.
OfPriority(w, priority) ==
    SelectSeq(ListOf(w), LAMBDA a : w.heap[a].priority = priority)

\* The order of the phases: the LOW messages, oldest first, then the
\* NORMAL ones, the HIGH ones and the CRITICAL ones.
PhaseOrder(w) ==
    OfPriority(w, "PRIORITY_LOW") \o OfPriority(w, "PRIORITY_NORMAL")
        \o OfPriority(w, "PRIORITY_HIGH")
        \o OfPriority(w, "PRIORITY_CRITICAL")

\* How many messages of the phase order are removed until the window is
\* within max_tokens: the fewest that will do.
PhaseStop(w, max_tokens) ==
    LET order == PhaseOrder(w)
        left(k) == w.total_tokens - SumOfTokens(w, SubSeq(order, 1, k))
    IN  CHOOSE k \in 0..Len(order) :
            /\ left(k) <= max_tokens
            /\ \A j \in 0..(k - 1) : left(j) > max_tokens

\* The call made by this step lowers max_tokens with a configuration that
\* has auto_compress set and a compression strategy.
LowersAndCompresses ==
    /\ window # NULL
    /\ call'.op = "context_window_apply_config"
    /\ call'.returned = "CW_SUCCESS"
    /\ window'.config.max_tokens < window.max_tokens
    /\ window'.config.auto_compress
    /\ window'.config.compression # "COMPRESSION_NONE"

\* C33: when apply_config lowers max_tokens on a window with auto_compress
\* and a compression other than COMPRESSION_NONE, eviction goes by phases
\* LOW, NORMAL, HIGH, oldest first inside a phase, and stops as soon as
\* total_tokens <= max_tokens: a message is removed only if every message
\* of strictly lower priority has been removed, and a CRITICAL message is
\* removed, oldest first, only when no other message remains.
C33_EvictsByPhase ==
    [][LowersAndCompresses =>
          LET order == PhaseOrder(window)
              k == PhaseStop(window, window'.max_tokens)
              removed == {order[i] : i \in 1..k}
          IN  /\ ListOf(window') =
                     SelectSeq(ListOf(window), LAMBDA a : a \notin removed)
              /\ \A a \in Allocated(window') :
                     window'.heap[a].priority = window.heap[a].priority
              /\ window'.total_tokens <= window'.max_tokens
              /\ \A a \in removed, b \in Allocated(window') :
                     PriorityRank(window.heap[a].priority)
                         <= PriorityRank(window.heap[b].priority)]_vars

\* The limit was lowered to 1: two messages went in the phases and a HIGH
\* message is what the window holds.
C33_Witness ==
    /\ window # NULL
    /\ call.op = "context_window_apply_config"
    /\ call.returned = "CW_SUCCESS"
    /\ window.config.auto_compress
    /\ window.config.compression # "COMPRESSION_NONE"
    /\ window.max_tokens = 1
    /\ window.metrics # NULL
    /\ window.metrics.messages_added = 3
    /\ window.metrics.compressions = 2
    /\ window.metrics.messages_evicted = 2
    /\ window.message_count = 1
    /\ window.heap[window.head.at].priority = "PRIORITY_HIGH"

-----------------------------------------------------------------------------
(* The limit after apply_config *)

\* The call made by this step applies a configuration to the client's
\* window.
AppliesConfig ==
    /\ call'.op = "context_window_apply_config"
    /\ ~call'.null_window

\* C34: after apply_config returns CW_SUCCESS the effective limit is the
\* configured one, context_window_get_max_tokens(window) =
\* config.max_tokens = window->config.max_tokens, whether the new
\* max_tokens is lower or higher than before; after CW_ERROR_INVALID_PARAM
\* or CW_ERROR_NULL_PTR the configuration, the limit and the messages of
\* the window are unchanged.
C34_LimitAsConfigured ==
    [][AppliesConfig =>
          /\ call'.returned = "CW_SUCCESS" =>
                 /\ context_window_get_max_tokens(window')
                        = call'.config.max_tokens
                 /\ window'.config.max_tokens = call'.config.max_tokens
          /\ call'.returned \in {"CW_ERROR_INVALID_PARAM",
                                 "CW_ERROR_NULL_PTR"} =>
                 window' = window]_vars

-----------------------------------------------------------------------------
(* Removal by content *)

\* The call made by this step asks the client's window to remove a
\* message.
RemovesMessage ==
    /\ call'.op = "context_window_remove_message"
    /\ ~call'.null_window

\* The places of the list whose message has the given content.
Matches(messages, content) ==
    {i \in 1..Len(messages) : messages[i].content = content}

\* C35: context_window_remove_message(window, content) removes exactly one
\* message, the oldest one whose content equals `content`, returns true,
\* decreases message_count by 1 and total_tokens by the token_count of
\* that message and keeps the order of the others; when no message has
\* that content it returns false and the window is unchanged.
C35_RemovesOldestMatch ==
    [][RemovesMessage =>
          LET found == Matches(window.messages, call'.content)
              oldest == CHOOSE i \in found : \A j \in found : i <= j
          IN  IF found = {}
              THEN ~call'.returned /\ window' = window
              ELSE /\ call'.returned
                   /\ window'.messages =
                          SubSeq(window.messages, 1, oldest - 1)
                              \o DropFirst(window.messages, oldest)
                   /\ window'.message_count = window.message_count - 1
                   /\ window'.total_tokens =
                          window.total_tokens
                              - window.messages[oldest].token_count
                   /\ window'.max_tokens = window.max_tokens
                   /\ window'.config = window.config]_vars

\* Of two messages with the content asked for, the newer one, the SYSTEM
\* message, is what a removal has left, in front of a message added
\* later.
C35_Witness ==
    /\ call.op = "context_window_remove_message"
    /\ ~call.null_window
    /\ call.returned
    /\ window # NULL
    /\ window.message_count = 2
    /\ window.messages[1].content = call.content
    /\ window.messages[1].type = "MESSAGE_SYSTEM"
    /\ window.messages[2].content # call.content

-----------------------------------------------------------------------------
(* The metrics *)

\* The metrics of w balance with its counters.
MetricsBalance(w) ==
    /\ w.metrics.messages_added - w.metrics.messages_evicted
           = w.message_count
    /\ w.metrics.tokens_added - w.metrics.tokens_evicted = w.total_tokens

\* C36: for a window whose metrics are enabled from creation and never
\* reset, after any sequence of add_message, remove_message, clear and
\* apply_config the metrics balance with the window: messages_added -
\* messages_evicted = message_count and tokens_added - tokens_evicted =
\* total_tokens.
C36_MetricsBalance ==
    (window # NULL /\ window.metrics # NULL) => MetricsBalance(window)

-----------------------------------------------------------------------------
(* Locking.  Two threads share a window created with thread_safe set; each *)
(* wraps its calls of add_message in lock and unlock.  A thread runs       *)
(* add_message_ex in steps: it links the message (the checks, the          *)
(* eviction and the linking, in one step), loads total_tokens, stores the  *)
(* sum, then counts the message.  `sched` holds where each thread is.      *)

MaxCalls == 2

Threads == {1, 2}

\* The messages the threads add.
ThreadInput == {m \in NodeInput : m.type # "MESSAGE_USER"}

context_window_lock(w) ==
    IF w = NULL THEN "CW_ERROR_NULL_PTR"
    ELSE IF ~w.config.thread_safe THEN "CW_SUCCESS"
    ELSE "CW_SUCCESS"

context_window_unlock(w) ==
    IF w = NULL THEN "CW_ERROR_NULL_PTR"
    ELSE IF ~w.config.thread_safe THEN "CW_SUCCESS"
    ELSE "CW_SUCCESS"

ThreadStep(t, made, after, thread) ==
    /\ window' = after
    /\ call' = made
    /\ sched' = [sched EXCEPT ![t] = thread]
    /\ UNCHANGED <<parser, stack, ret, ast, main>>

\* context_window_lock returns; with CW_SUCCESS the thread goes on to add
\* a message.
thread_lock(t) ==
    /\ sched[t].pc = "idle"
    /\ sched[t].calls < MaxCalls
    /\ \E m \in ThreadInput :
           LET result == context_window_lock(window)
           IN  ThreadStep(t, [op |-> "context_window_lock", thread |-> t,
                              returned |-> result], window,
                          IF result = "CW_SUCCESS"
                          THEN [sched[t] EXCEPT !.pc = "locked",
                                                !.message = m,
                                                !.calls = @ + 1]
                          ELSE sched[t])

\* add_message_ex up to the linking of the message.
thread_link(t) ==
    /\ sched[t].pc = "locked"
    /\ Cardinality(Allocated(window)) <= MaxHeld
    /\ LET m == sched[t].message
           linked == struct_link_message(window, m.type, m.priority,
                                         m.content, TRUE)
       IN  ThreadStep(t, [op |-> "context_window_add_message_ex",
                          thread |-> t, returned |-> linked.msg # NULL],
                      linked.w,
                      IF linked.msg = NULL
                      THEN [sched[t] EXCEPT !.pc = "added"]
                      ELSE [sched[t] EXCEPT !.pc = "linked",
                                            !.msg = linked.msg])

\* window->total_tokens += msg->token_count: the load.
thread_load(t) ==
    /\ sched[t].pc = "linked"
    /\ sched[t].msg.at \in Allocated(window)
    /\ ThreadStep(t, call, window,
                  [sched[t] EXCEPT !.pc = "loaded",
                                   !.loaded = window.total_tokens])

\* window->total_tokens += msg->token_count: the store.
thread_store(t) ==
    /\ sched[t].pc = "loaded"
    /\ sched[t].msg.at \in Allocated(window)
    /\ ThreadStep(t, call,
                  [window EXCEPT !.total_tokens =
                       sched[t].loaded
                           + window.heap[sched[t].msg.at].token_count],
                  [sched[t] EXCEPT !.pc = "stored"])

\* window->message_count++ and update_metrics_on_add; add_message_ex
\* returns.
thread_count(t) ==
    /\ sched[t].pc = "stored"
    /\ sched[t].msg.at \in Allocated(window)
    /\ ThreadStep(t, call,
                  update_metrics_on_add(
                      [window EXCEPT !.message_count = @ + 1],
                      window.heap[sched[t].msg.at].token_count),
                  [sched[t] EXCEPT !.pc = "added"])

\* context_window_unlock returns.
thread_unlock(t) ==
    /\ sched[t].pc = "added"
    /\ ThreadStep(t, [op |-> "context_window_unlock", thread |-> t,
                      returned |-> context_window_unlock(window)], window,
                  [sched[t] EXCEPT !.pc = "idle", !.message = NULL,
                                   !.msg = NULL, !.loaded = 0])

InitLock ==
    /\ parser = parser_create(Lexer(<<>>))
    /\ stack = <<>>
    /\ ret = NULL
    /\ ast = PENDING
    /\ call = NoCall
    /\ main = main_at_parse(FALSE)
    /\ \E max_tokens \in 1..MaxWindow :
           window = struct_create_with_config(
                        [Config(max_tokens, 1, TRUE,
                                "COMPRESSION_LOW_PRIORITY")
                            EXCEPT !.thread_safe = TRUE,
                                   !.enable_metrics = FALSE],
                        [window |-> TRUE, metrics |-> TRUE])
    /\ sched = [t \in Threads |->
                   [pc |-> "idle", calls |-> 0, message |-> NULL,
                    msg |-> NULL, loaded |-> 0]]

NextLock ==
    \E t \in Threads :
        \/ thread_lock(t)
        \/ thread_link(t)
        \/ thread_load(t)
        \/ thread_store(t)
        \/ thread_count(t)
        \/ thread_unlock(t)

SpecLock == InitLock /\ [][NextLock]_vars

\* The thread is between a successful lock and its unlock.
Holds(t) == sched[t].pc # "idle"

\* C37: on a window created with thread_safe = true, lock and unlock give
\* mutual exclusion: at most one thread is between a successful lock and
\* its matching unlock at any time, so two threads that each wrap
\* add_message in lock and unlock never interleave inside the list update
\* and the accounting of the list holds whenever no thread is inside.
C37_MutualExclusion ==
    /\ Cardinality({t \in Threads : Holds(t)}) <= 1
    /\ (\A t \in Threads : ~Holds(t)) => Accounted(window)

-----------------------------------------------------------------------------
(* Saving and loading (context_window.c).  A file is the sequence of its  *)
(* characters, or NULL where it cannot be opened; a position in it is the *)
(* index of the next character to read.  The calls of fprintf, fscanf and *)
(* fgets are modelled by what they write and read.                        *)

CONTENT_BUFFER == 4096
HEADER_BUFFER == 64

FILE_HEADER ==
    <<"P", "C", "C", "_", "C", "O", "N", "T", "E", "X", "T", "_",
      "W", "I", "N", "D", "O", "W", "_", "v", "1">>

IsDigit(c) == \E d \in 0..9 : Digit(d) = c

DigitValue(c) == CHOOSE d \in 0..9 : Digit(d) = c

\* isspace, for the characters of the model.
IsSpace(c) == c \in {" ", "\n"}

MessageTypeValue ==
    [MESSAGE_USER |-> 0, MESSAGE_ASSISTANT |-> 1, MESSAGE_SYSTEM |-> 2,
     MESSAGE_TOOL |-> 3]

MessagePriorityValue ==
    [PRIORITY_LOW |-> 0, PRIORITY_NORMAL |-> 1, PRIORITY_HIGH |-> 2,
     PRIORITY_CRITICAL |-> 3]

\* The casts (MessageType)n and (MessagePriority)n: the enumerator with
\* that value, or the bare value where there is none.
MessageTypeOf(n) ==
    IF \E t \in DOMAIN MessageTypeValue : MessageTypeValue[t] = n
    THEN CHOOSE t \in DOMAIN MessageTypeValue : MessageTypeValue[t] = n
    ELSE "(MessageType)" \o ToString(n)

MessagePriorityOf(n) ==
    IF \E p \in DOMAIN MessagePriorityValue : MessagePriorityValue[p] = n
    THEN CHOOSE p \in DOMAIN MessagePriorityValue :
             MessagePriorityValue[p] = n
    ELSE "(MessagePriority)" \o ToString(n)

\* The digits of n >= 0.
RECURSIVE print_digits(_)
print_digits(n) ==
    IF n < 10 THEN <<Digit(n)>>
    ELSE Append(print_digits(n \div 10), Digit(n % 10))

\* fprintf(fp, "%d\n", n).
fprintf_int(n) ==
    (IF n < 0 THEN <<"-">> \o print_digits(-n) ELSE print_digits(n))
        \o <<"\n">>

\* fprintf(fp, "%s\n", s).
fprintf_string(s) == s.chars \o <<"\n">>

write_message_to_file(msg) ==
    fprintf_int(MessageTypeValue[msg.type])
        \o fprintf_int(MessagePriorityValue[msg.priority])
        \o fprintf_int(msg.token_count)
        \o fprintf_string(msg.content)

RECURSIVE write_messages(_)
write_messages(messages) ==
    IF messages = <<>> THEN <<>>
    ELSE write_message_to_file(Head(messages))
             \o write_messages(Tail(messages))

\* The file context_window_save leaves, and what it returns; `opened`
\* tells whether fopen succeeds.
context_window_save(w, filename, opened) ==
    IF w = NULL \/ filename = NULL
    THEN [file |-> NULL, r |-> "CW_ERROR_NULL_PTR"]
    ELSE IF ~opened THEN [file |-> NULL, r |-> "CW_ERROR_IO"]
    ELSE [file |-> FILE_HEADER \o <<"\n">> \o fprintf_int(w.max_tokens)
                       \o fprintf_int(w.message_count)
                       \o write_messages(w.messages),
          r |-> "CW_SUCCESS"]

\* Whitespace in a format: the position after any run of whitespace.
RECURSIVE skip_space(_, _)
skip_space(file, pos) ==
    IF pos <= Len(file) /\ IsSpace(file[pos])
    THEN skip_space(file, pos + 1)
    ELSE pos

\* The digits of a number, read from pos on, after `value`.
RECURSIVE scan_digits(_, _, _)
scan_digits(file, pos, value) ==
    IF pos <= Len(file) /\ IsDigit(file[pos])
    THEN scan_digits(file, pos + 1, 10 * value + DigitValue(file[pos]))
    ELSE [ok |-> TRUE, value |-> value, pos |-> skip_space(file, pos)]

\* %d from the first character that is no whitespace: a sign or none, then
\* at least one digit.
scan_int(file, start) ==
    IF start <= Len(file) /\ file[start] \in {"-", "+"}
    THEN IF start < Len(file) /\ IsDigit(file[start + 1])
         THEN [scan_digits(file, start + 1, 0) EXCEPT
                  !.value = IF file[start] = "-" THEN 0 - @ ELSE @]
         ELSE [ok |-> FALSE, value |-> 0, pos |-> start]
    ELSE IF start <= Len(file) /\ IsDigit(file[start])
    THEN scan_digits(file, start, 0)
    ELSE [ok |-> FALSE, value |-> 0, pos |-> start]

\* fscanf(fp, "%d\n", &value) == 1: leading whitespace, the number, and
\* then, for the "\n" of the format, whitespace of any kind and length.
fscanf_int(file, pos) == scan_int(file, skip_space(file, pos))

\* The last position of the line fgets reads from pos: the first newline,
\* the end of the file, or `last`, where the buffer is full.
RECURSIVE line_end(_, _, _)
line_end(file, pos, last) ==
    IF file[pos] = "\n" \/ pos = Len(file) \/ pos = last THEN pos
    ELSE line_end(file, pos + 1, last)

\* fgets(buffer, size, fp): NULL at the end of the file.
fgets(file, pos, size) ==
    IF pos > Len(file) THEN NULL
    ELSE [line |-> SubSeq(file, pos, line_end(file, pos, pos + size - 2)),
          pos |-> line_end(file, pos, pos + size - 2) + 1]

\* read_message_from_file after fgets: the trailing newline is removed and
\* the message allocated.
read_content(type, priority, tokens, line, alloc) ==
    IF line = NULL THEN NULL
    ELSE IF ~alloc THEN NULL
    ELSE [msg |-> [type |-> MessageTypeOf(type),
                   priority |-> MessagePriorityOf(priority),
                   content |->
                       CString(IF line.line[Len(line.line)] = "\n"
                               THEN SubSeq(line.line, 1, Len(line.line) - 1)
                               ELSE line.line),
                   token_count |-> tokens],
          pos |-> line.pos]

\* read_message_from_file after the third fscanf.
read_tokens(file, type, priority, tokens, alloc) ==
    IF ~tokens.ok THEN NULL
    ELSE read_content(type, priority, tokens.value,
                      fgets(file, tokens.pos, CONTENT_BUFFER), alloc)

\* read_message_from_file after the second fscanf.
read_priority(file, type, priority, alloc) ==
    IF ~priority.ok THEN NULL
    ELSE read_tokens(file, type, priority.value,
                     fscanf_int(file, priority.pos), alloc)

\* read_message_from_file after the first fscanf.
read_type(file, type, alloc) ==
    IF ~type.ok THEN NULL
    ELSE read_priority(file, type.value, fscanf_int(file, type.pos), alloc)

\* The message read at pos and the position after it, or NULL.
read_message_from_file(file, pos, alloc) ==
    read_type(file, fscanf_int(file, pos), alloc)

\* context_window_load, the linking of a message that was read.
load_message(w, msg) ==
    [w EXCEPT !.messages = Append(@, msg),
              !.total_tokens = @ + msg.token_count,
              !.message_count = @ + 1]

\* The loop of context_window_load with `left` messages still to read.
RECURSIVE load_messages(_, _, _, _, _)
load_messages(w, file, read, left, alloc) ==
    IF left <= 0 \/ read = NULL THEN w
    ELSE load_messages(load_message(w, read.msg), file,
                       IF left > 1
                       THEN read_message_from_file(file, read.pos, alloc)
                       ELSE NULL,
                       left - 1, alloc)

\* context_window_load after the two numbers of the header.
load_window(file, max_tokens, message_count, alloc) ==
    IF ~max_tokens.ok \/ ~message_count.ok THEN NULL
    ELSE IF context_window_create(max_tokens.value, alloc) = NULL THEN NULL
    ELSE load_messages(context_window_create(max_tokens.value, alloc),
                       file,
                       IF message_count.value > 0
                       THEN read_message_from_file(file, message_count.pos,
                                                   alloc)
                       ELSE NULL,
                       message_count.value, alloc)

\* context_window_load after the header line.
load_header(file, header, alloc) ==
    IF header = NULL THEN NULL
    ELSE IF Len(header.line) < Len(FILE_HEADER) THEN NULL
    ELSE IF SubSeq(header.line, 1, Len(FILE_HEADER)) # FILE_HEADER
    THEN NULL
    ELSE load_window(file, fscanf_int(file, header.pos),
                     IF fscanf_int(file, header.pos).ok
                     THEN fscanf_int(file,
                                     fscanf_int(file, header.pos).pos)
                     ELSE [ok |-> FALSE], alloc)

\* The window context_window_load returns for a file; file is NULL where
\* fopen fails.
context_window_load(filename, file, alloc) ==
    IF filename = NULL THEN NULL
    ELSE IF file = NULL THEN NULL
    ELSE load_header(file, fgets(file, 1, HEADER_BUFFER), alloc)

context_window_add_message(w, type, priority, content, alloc) ==
    context_window_add_message_ex(w, type, priority, content, alloc)

-----------------------------------------------------------------------------
(* A client that saves its window and loads the file again.  After a save *)
(* `call` holds the file that was written, which is the file a load that  *)
(* follows reads.                                                         *)

\* Messages with plain contents, an empty one, one that starts with a
\* blank and one with a newline inside.
FileMessageInput ==
    { [type |-> "MESSAGE_USER", priority |-> "PRIORITY_NORMAL",
       content |-> CString(<<"a", "b">>)],
      [type |-> "MESSAGE_USER", priority |-> "PRIORITY_HIGH",
       content |-> CString(<<"a", " ", "b">>)],
      [type |-> "MESSAGE_ASSISTANT", priority |-> "PRIORITY_LOW",
       content |-> CString(<<>>)],
      [type |-> "MESSAGE_SYSTEM", priority |-> "PRIORITY_CRITICAL",
       content |-> CString(<<" ", "a">>)],
      [type |-> "MESSAGE_TOOL", priority |-> "PRIORITY_HIGH",
       content |-> CString(<<"a", "\n", "1">>)] }

FileName == CString(<<"f">>)

call_context_window_add_message ==
    /\ window # NULL
    /\ window.message_count < MaxMessages
    /\ \E m \in FileMessageInput, alloc \in BOOLEAN :
           LET c == context_window_add_message(window, m.type, m.priority,
                                               m.content, alloc)
           IN  WindowCall([op |-> "context_window_add_message",
                           message |-> m, alloc |-> alloc,
                           returned |-> c.r], window, c.w)

call_context_window_save ==
    /\ window # NULL
    /\ \E filename \in {FileName, NULL}, opened \in BOOLEAN :
           LET c == context_window_save(window, filename, opened)
           IN  WindowCall([op |-> "context_window_save",
                           filename |-> filename, file |-> c.file,
                           returned |-> c.r], window, window)

call_context_window_load ==
    /\ call.op = "context_window_save"
    /\ \E alloc \in BOOLEAN :
           WindowCall([op |-> "context_window_load", file |-> call.file,
                       alloc |-> alloc,
                       returned |-> context_window_load(FileName, call.file,
                                                        alloc)],
                      window, window)

NextFile ==
    \/ call_context_window_create
    \/ call_context_window_destroy
    \/ call_context_window_add_message
    \/ call_context_window_save
    \/ call_context_window_load

SpecFile == InitWindow /\ [][NextFile]_vars

\* The file of the window was written and has just been loaded, with no
\* allocation failing.
Loaded ==
    /\ call.op = "context_window_load"
    /\ call.file # NULL
    /\ call.alloc

\* C38: save and load round-trip: for every window reachable by create and
\* add_message, loading the file written by context_window_save yields a
\* window with the same max_tokens, message count and token total and the
\* same messages (type, priority, token_count, content) in the same order,
\* also where a content is empty, starts with whitespace or contains a
\* newline.
C38_RoundTrip ==
    Loaded =>
        /\ call.returned # NULL
        /\ call.returned.max_tokens = window.max_tokens
        /\ call.returned.message_count = window.message_count
        /\ call.returned.total_tokens = window.total_tokens
        /\ call.returned.messages = window.messages

-----------------------------------------------------------------------------
(* main and what it owns (main.c).  From the return of read_file on, main *)
(* holds the source buffer and acquires the lexer, the parser, the AST,   *)
(* the semantic analyzer and the code generator in turn.  `acquired` is   *)
(* the set of what it was given, `released` the sequence of what it freed.*)
(* What lexer.c, semantic.c, optimizer.c and codegen.c answer is drawn    *)
(* freely; the parse is the parse of the model, with memory that may run  *)
(* out.                                                                    *)

\* main as read_file has returned the source buffer.
main_at_read(optimize) ==
    [pc |-> "lexer", optimize |-> optimize, stages |-> <<>>, status |-> 0,
     acquired |-> {"source"}, released |-> <<>>]

Acquire(m, resource) == [m EXCEPT !.acquired = @ \cup {resource}]

\* The calls of free, in their order.
Release(m, resources) == [m EXCEPT !.released = @ \o resources]

\* return status, after the frees in `resources`.
ReturnAfter(m, resources, status) == Exit(Release(m, resources), status)

main_lexer_create ==
    /\ main.pc = "lexer"
    /\ \E created \in BOOLEAN :
          main' = IF created
                  THEN [Acquire(main, "lexer") EXCEPT !.pc = "tokenize"]
                  ELSE ReturnAfter(main, <<"source">>, 1)
    /\ MainChanges

main_lexer_tokenize ==
    /\ main.pc = "tokenize"
    /\ \E tokenized \in BOOLEAN :
          main' = IF tokenized
                  THEN [main EXCEPT !.pc = "parser"]
                  ELSE ReturnAfter(main, <<"lexer", "source">>, 1)
    /\ MainChanges

main_parser_create ==
    /\ main.pc = "parser"
    /\ \E created \in BOOLEAN :
          main' = IF created
                  THEN [Acquire(main, "parser") EXCEPT !.pc = "parse"]
                  ELSE ReturnAfter(main, <<"lexer", "source">>, 1)
    /\ MainChanges

\* The steps of parser_parse, taken while main waits for its result.
main_parser_parse ==
    /\ main.pc = "parse"
    /\ NextAlloc

\* The test of the parse result; a tree that was returned is main's from
\* here on, whichever branch is taken.
main_parse_result ==
    /\ main.pc = "parse"
    /\ Parsed
    /\ main' = IF ast = NULL
               THEN ReturnAfter(main, <<"parser", "lexer", "source">>, 1)
               ELSE IF parser_has_errors(parser)
               THEN ReturnAfter(Acquire(main, "ast"),
                           <<"parser", "lexer", "source">>, 1)
               ELSE [Acquire(main, "ast") EXCEPT !.pc = "semantic"]
    /\ MainChanges

main_semantic_analyze ==
    /\ main.pc = "semantic"
    /\ \E created \in BOOLEAN, passed \in BOOLEAN :
          main' = IF ~created
                  THEN ReturnAfter(Started(main, "semantic"),
                              <<"ast", "parser", "lexer", "source">>, 1)
                  ELSE IF ~passed
                  THEN ReturnAfter(Acquire(Started(main, "semantic"), "semantic"),
                              <<"semantic", "ast", "parser", "lexer",
                                "source">>, 1)
                  ELSE [Acquire(Started(main, "semantic"), "semantic")
                           EXCEPT !.pc = "optimize"]
    /\ MainChanges

\* The optimizer is created and freed inside the stage; the tree it
\* returns takes the place of the one it was given.
main_optimizer_optimize ==
    /\ main.pc = "optimize"
    /\ main' = [(IF main.optimize THEN Started(main, "optimization")
                                  ELSE main) EXCEPT !.pc = "codegen"]
    /\ MainChanges

main_codegen_generate ==
    /\ main.pc = "codegen"
    /\ \E created \in BOOLEAN, generated \in BOOLEAN :
          main' = IF ~created
                  THEN ReturnAfter(Started(main, "codegen"),
                              <<"semantic", "ast", "parser", "lexer",
                                "source">>, 1)
                  ELSE IF ~generated
                  THEN ReturnAfter(Acquire(Started(main, "codegen"), "codegen"),
                              <<"codegen", "semantic", "ast", "parser",
                                "lexer", "source">>, 1)
                  ELSE [Acquire(Started(main, "codegen"), "codegen")
                           EXCEPT !.pc = "write"]
    /\ MainChanges

\* codegen_write_to_file, and the cleanup at the end of main.
main_codegen_write_to_file ==
    /\ main.pc = "write"
    /\ \E written \in BOOLEAN :
          main' = IF written
                  THEN ReturnAfter(Started(main, "write"),
                              <<"codegen", "ast", "semantic", "parser",
                                "lexer", "source">>, 0)
                  ELSE ReturnAfter(Started(main, "write"),
                              <<"codegen", "semantic", "ast", "parser",
                                "lexer", "source">>, 1)
    /\ MainChanges

InitExit ==
    /\ parser \in { parser_create(Lexer(s)) : s \in Source }
    /\ stack = <<>>
    /\ ret = NULL
    /\ ast = PENDING
    /\ call = NoCall
    /\ main \in { main_at_read(optimize) : optimize \in BOOLEAN }
    /\ window = NULL
    /\ sched = OneThread

NextExit ==
    \/ main_lexer_create
    \/ main_lexer_tokenize
    \/ main_parser_create
    \/ main_parser_parse
    \/ main_parse_result
    \/ main_semantic_analyze
    \/ main_optimizer_optimize
    \/ main_codegen_generate
    \/ main_codegen_write_to_file

SpecExit == InitExit /\ [][NextExit]_vars

\* How often main has released the resource.
Releases(resource) ==
    Cardinality({i \in 1..Len(main.released) :
                     main.released[i] = resource})

\* C39: on every exit path of main taken after the source buffer was read,
\* each resource acquired so far (source buffer, lexer, parser, AST,
\* semantic analyzer, code generator) has been released exactly once when
\* main returns, and nothing else was released; in particular a non-null
\* AST returned by a parse that recorded errors is released.
C39_ReleasedOnExit ==
    main.pc = "exit" =>
        /\ \A resource \in main.acquired : Releases(resource) = 1
        /\ \A i \in 1..Len(main.released) :
               main.released[i] \in main.acquired

====
